---- MODULE Spec2Model ----
(***************************************************************************)
(* CloudPulse client data-access layer.                                    *)
(*                                                                         *)
(*   ApiClient (utils/api.ts): fetchWithTimeout, parseErrorResponse,       *)
(*   shouldRetry, withRetry, request, get.                                 *)
(*   Query hooks (hooks/useApi.ts): one polled query per resource, the     *)
(*   query-level retry predicate, manual refetch and checkConnection.      *)
(***************************************************************************)
EXTENDS Integers, Sequences, FiniteSets, TLC

VARIABLES
    call,       \* the ApiClient.get call under study
    served,     \* what the server answered to each attempt of that call
    resource,   \* the polled resource whose cache entry is followed
    mounted,    \* a consumer of the resource's hook is mounted
    query,      \* the cache entry (query state) of the resource
    fetch,      \* the fetch of the query that is under way, if any
    orphans,    \* get calls of cancelled fetches, still running
    checks,     \* the get calls made by checkConnection, running or settled
    lastGood,   \* history: the value the last successful fetch delivered
    metrics,    \* the Metric[] made from the latest metrics reading
    previousMetrics, \* the Metric[] made from the reading before it
    services,   \* the rows of the services table
    logs,       \* the rows of the logs table, in insertion order
    logsResult, \* the latest useLogs query: its params, request and data
    logs_id_seq, \* the sequence behind logs.id: the value nextval returned last
    statusHook, \* useSystemStatus beside useMetrics: its query state and its fetch
    statusOrphans, \* get calls of cancelled fetches of the status query, still running
    series,     \* the MetricSeries followed in the store's metrics partition
    simulated,  \* the store's services partition: the status of each service
    buffer,     \* the store's log partition: the retained LogRecords
    engine,     \* the generation loop of the metrics task, and the latest HTTP read
    cycle,      \* the tick cycle under way: which tasks ran, and what they did
    mutation    \* the mutation hook in use, its request, and the queries it invalidated

clientVars == <<call, served>>
cacheVars == <<resource, mounted, query, fetch, orphans, checks, lastGood>>
viewVars == <<metrics, previousMetrics>>
storeVars == <<services, logs>>
logsVars == <<logsResult, logs_id_seq>>
dashVars == <<statusHook, statusOrphans>>
genVars == <<series, simulated, buffer, engine, cycle>>
mutVars == <<mutation>>
otherVars == <<genVars, mutVars>>
sideVars == <<viewVars, storeVars, logsVars, dashVars, otherVars>>
vars == <<call, served, resource, mounted, query, fetch, orphans, checks, lastGood,
          metrics, previousMetrics, services, logs, logsResult, logs_id_seq, statusHook,
          statusOrphans,
          series, simulated, buffer, engine, cycle, mutation>>

(***************************************************************************)
(* constants.ts                                                            *)
(***************************************************************************)
TIMEOUT == 10000
RETRY_ATTEMPTS == 3
RETRY_DELAY == 1000

\* Largest per-request config.retries a caller of get passes in the model.
MaxRetries == 4

\* Most get calls of cancelled fetches running at once, and most connection
\* checks made.
MaxOrphans == 1
MaxChecks == 1

\* Largest value the sequence of logs.id is driven to.
MaxLogId == 11

\* Most ticks of the metrics task that throw, the retention count of the log
\* buffer, and the number of cycles from one heartbeat to the next.
MaxFailures == 2
Retention == 3
HeartbeatEvery == 2

(***************************************************************************)
(* JavaScript values.  Strings are TLA+ strings; undefined and a missing   *)
(* header are sentinels.  Objects carry the fields the client reads.       *)
(***************************************************************************)
Undefined == "<undefined>"
NoHeader == "<null>"

\* JS truthiness of a string-or-undefined value.
Truthy(v) == v # Undefined /\ v # ""

\* a || b
OrElse(a, b) == IF Truthy(a) THEN a ELSE b

UndefinedValue == [t |-> "undefined"]
NullValue == [t |-> "null", json |-> "null"]
NumberValue(raw) == [t |-> "number", json |-> raw]
ErrorField(m, c, d) == [t |-> "object", message |-> m, code |-> c, details |-> d]
ObjectValue(raw, e, m, c, d) ==
    [t |-> "object", json |-> raw, error |-> e, message |-> m, code |-> c, details |-> d]

(***************************************************************************)
(* Response bodies the simulated server sends, as texts.                   *)
(***************************************************************************)
BodyEmpty == ""
BodyText == "Service Unavailable"
BodyNull == "null"
BodyNumber == "42"
BodyEmptyObject == "{}"
BodyStructured ==
    "{\"error\":{\"code\":\"NOT_FOUND\",\"message\":\"No such resource\",\"details\":\"id=7\"}}"
BodyTopLevel == "{\"message\":\"Bad request\",\"code\":\"BAD\",\"details\":\"field x\"}"
BodyMixed == "{\"error\":{\"code\":\"E1\",\"message\":\"\"},\"message\":\"top\",\"details\":\"d\"}"
BodyData == "{\"cpu\":42}"

\* Well-formed payloads of the four read endpoints, two versions each.
MetricsBodyA ==
    "{\"cpu_usage\":59,\"memory_usage\":71,\"network_traffic\":1200,\"container_count\":12,\"overall_health\":95,\"timestamp\":\"t1\"}"
MetricsBodyB ==
    "{\"cpu_usage\":81,\"memory_usage\":86,\"network_traffic\":300,\"container_count\":11,\"overall_health\":65,\"timestamp\":\"t2\"}"
ServicesBodyA == "[{\"id\":\"1\",\"name\":\"api\",\"uptime\":99,\"status\":\"online\"}]"
ServicesBodyB == "[{\"id\":\"1\",\"name\":\"api\",\"uptime\":90,\"status\":\"offline\"}]"
LogsBodyA == "{\"logs\":[{\"id\":\"1\",\"level\":\"info\"}],\"total\":1,\"limit\":50,\"offset\":0}"
LogsBodyB == "{\"logs\":[{\"id\":\"2\",\"level\":\"error\"},{\"id\":\"1\",\"level\":\"info\"}],\"total\":2,\"limit\":50,\"offset\":0}"
StatusBodyA == "{\"overall_status\":\"healthy\",\"services_online\":3,\"services_total\":3,\"critical_alerts\":0}"
StatusBodyB == "{\"overall_status\":\"critical\",\"services_online\":2,\"services_total\":3,\"critical_alerts\":1}"

MetricsObject(raw, cpu, memory, network, containers, health, timestamp) ==
    [t |-> "object", json |-> raw, error |-> UndefinedValue, message |-> Undefined,
     code |-> Undefined, details |-> Undefined,
     cpu_usage |-> cpu, memory_usage |-> memory, network_traffic |-> network,
     container_count |-> containers, overall_health |-> health, timestamp |-> timestamp]

LogsObject(raw, entries) ==
    [t |-> "object", json |-> raw, error |-> UndefinedValue, message |-> Undefined,
     code |-> Undefined, details |-> Undefined, logs |-> [t |-> "array", json |-> entries]]

\* JSON.parse on the body texts above: [threw, value].
JsonParse(raw) ==
    CASE raw = BodyNull -> [threw |-> FALSE, value |-> NullValue]
      [] raw = BodyNumber -> [threw |-> FALSE, value |-> NumberValue(raw)]
      [] raw = BodyEmptyObject ->
            [threw |-> FALSE,
             value |-> ObjectValue(raw, UndefinedValue, Undefined, Undefined, Undefined)]
      [] raw = BodyStructured ->
            [threw |-> FALSE,
             value |-> ObjectValue(raw, ErrorField("No such resource", "NOT_FOUND", "id=7"),
                                   Undefined, Undefined, Undefined)]
      [] raw = BodyTopLevel ->
            [threw |-> FALSE,
             value |-> ObjectValue(raw, UndefinedValue, "Bad request", "BAD", "field x")]
      [] raw = BodyMixed ->
            [threw |-> FALSE,
             value |-> ObjectValue(raw, ErrorField("", "E1", Undefined), "top", Undefined, "d")]
      [] raw = BodyData ->
            [threw |-> FALSE,
             value |-> ObjectValue(raw, UndefinedValue, Undefined, Undefined, Undefined)]
      [] raw = MetricsBodyA ->
            [threw |-> FALSE, value |-> MetricsObject(raw, 59, 71, 1200, 12, 95, "t1")]
      [] raw = MetricsBodyB ->
            [threw |-> FALSE, value |-> MetricsObject(raw, 81, 86, 300, 11, 65, "t2")]
      [] raw \in {ServicesBodyA, ServicesBodyB} ->
            [threw |-> FALSE, value |-> [t |-> "array", json |-> raw]]
      [] raw = LogsBodyA ->
            [threw |-> FALSE,
             value |-> LogsObject(raw, "[{\"id\":\"1\",\"level\":\"info\"}]")]
      [] raw = LogsBodyB ->
            [threw |-> FALSE,
             value |-> LogsObject(raw, "[{\"id\":\"2\",\"level\":\"error\"},{\"id\":\"1\",\"level\":\"info\"}]")]
      [] raw \in {StatusBodyA, StatusBodyB} ->
            [threw |-> FALSE,
             value |-> ObjectValue(raw, UndefinedValue, Undefined, Undefined, Undefined)]
      [] OTHER -> [threw |-> TRUE, value |-> UndefinedValue]

(***************************************************************************)
(* What one fetch can meet: no response before the timeout fires (the      *)
(* AbortController aborts), a rejected fetch, or a response.               *)
(***************************************************************************)
FetchAborted == [kind |-> "AbortError"]
FetchFailed == [kind |-> "Error", message |-> "Failed to fetch"]
FetchThrewNonError == [kind |-> "nonError"]
HttpResponse(status, statusText, contentType, body, stream) ==
    [kind |-> "response", status |-> status, statusText |-> statusText,
     contentType |-> contentType, body |-> body, stream |-> stream]

\* Response.ok
Ok(response) == response.status >= 200 /\ response.status <= 299

\* contentType && contentType.includes('application/json')
IsJson(contentType) ==
    contentType \in {"application/json", "application/json; charset=utf-8"}

\* response.json(): rejects when the body stream fails or the text is not JSON.
ResponseJson(response) ==
    IF response.stream = "error"
    THEN [threw |-> TRUE, value |-> UndefinedValue]
    ELSE JsonParse(response.body)

\* response.text(): rejects when the body stream fails.
ResponseText(response) ==
    IF response.stream = "error"
    THEN [threw |-> TRUE, value |-> Undefined]
    ELSE [threw |-> FALSE, value |-> response.body]

(***************************************************************************)
(* Error classes of api.ts                                                 *)
(***************************************************************************)
ApiError(message, status, code, details) ==
    [name |-> "ApiError", message |-> message, status |-> status,
     code |-> code, details |-> details]

NetworkError(message) == [name |-> "NetworkError", message |-> message]

\* What the runtime throws on a property read of null.
TypeError == [name |-> "TypeError", message |-> "Cannot read properties of null"]

(***************************************************************************)
(* ApiClient.fetchWithTimeout: the response, or the NetworkError thrown    *)
(* for an aborted (timed out) or rejected fetch.                           *)
(***************************************************************************)
fetchWithTimeoutAs408(outcome) ==
    CASE outcome.kind = "response" -> [threw |-> FALSE, value |-> outcome]
      [] outcome.kind = "AbortError" ->
            [threw |-> TRUE, value |-> ApiError("Request timeout", 408, Undefined, Undefined)]
      [] outcome.kind = "Error" -> [threw |-> TRUE, value |-> NetworkError(outcome.message)]
      [] OTHER -> [threw |-> TRUE, value |-> NetworkError("Unknown network error")]

fetchWithTimeout(outcome) ==
    CASE outcome.kind = "response" -> [threw |-> FALSE, value |-> outcome]
      [] outcome.kind = "AbortError" ->
            [threw |-> TRUE, value |-> NetworkError("Request timeout")]
      [] outcome.kind = "Error" -> [threw |-> TRUE, value |-> NetworkError(outcome.message)]
      [] OTHER -> [threw |-> TRUE, value |-> NetworkError("Unknown network error")]

(***************************************************************************)
(* ApiClient.shouldRetry                                                   *)
(***************************************************************************)
shouldRetryClientErrors(error) ==
    IF error.name = "NetworkError" THEN TRUE
    ELSE IF error.name = "ApiError" THEN error.status >= 400
    ELSE FALSE

shouldRetry(error) ==
    IF error.name = "NetworkError" THEN TRUE
    ELSE IF error.name = "ApiError" THEN error.status >= 500
    ELSE FALSE

(***************************************************************************)
(* ApiClient.parseErrorResponse                                            *)
(***************************************************************************)
\* { message: m }
MessageObject(m) == ObjectValue("", UndefinedValue, m, Undefined, Undefined)

\* lines 112-123: errorData
errorDataOf(response) ==
    IF IsJson(response.contentType)
    THEN LET j == ResponseJson(response)
         IN  IF j.threw THEN MessageObject("Failed to parse error response") ELSE j.value
    ELSE LET t == ResponseText(response)
         IN  IF t.threw THEN MessageObject("Failed to parse error response")
             ELSE MessageObject(t.value)

\* v.f for a value that is not null or undefined
Prop(v, f) == IF v.t = "object" /\ f \in DOMAIN v THEN v[f] ELSE Undefined

\* v.error, itself an object, null or undefined
ErrorProp(v) == IF v.t = "object" THEN v.error ELSE UndefinedValue

\* v?.f
OptProp(v, f) == IF v.t \in {"undefined", "null"} THEN Undefined ELSE Prop(v, f)

\* [threw, value]: the ApiError returned, or the TypeError of reading
\* errorData.error when errorData is null.
parseErrorResponse(response) ==
    LET errorData == errorDataOf(response)
    IN  IF errorData.t = "null"
        THEN [threw |-> TRUE, value |-> TypeError]
        ELSE LET err == ErrorProp(errorData)
                 message == OrElse(OrElse(OrElse(OptProp(err, "message"),
                                                 Prop(errorData, "message")),
                                          response.statusText),
                                   "Unknown error")
                 code == OrElse(OptProp(err, "code"), Prop(errorData, "code"))
                 details == OrElse(OptProp(err, "details"), Prop(errorData, "details"))
             IN  [threw |-> FALSE,
                  value |-> ApiError(message, response.status, code, details)]

(***************************************************************************)
(* The operation ApiClient.request hands to withRetry: one attempt.        *)
(* [threw, value]: the ApiResponse, or the error thrown.                   *)
(***************************************************************************)
ApiResponse(data, response) ==
    [data |-> data, status |-> response.status, statusText |-> response.statusText]

operation(outcome) ==
    LET f == fetchWithTimeout(outcome)
    IN  IF f.threw THEN f
        ELSE LET response == f.value
             IN  IF ~Ok(response)
                 THEN [threw |-> TRUE, value |-> parseErrorResponse(response).value]
                 ELSE LET body == IF IsJson(response.contentType)
                                  THEN ResponseJson(response)
                                  ELSE LET t == ResponseText(response)
                                       IN  [threw |-> t.threw,
                                            value |-> [t |-> "string", json |-> t.value]]
                      IN  IF body.threw
                          THEN [threw |-> TRUE,
                                value |-> ApiError("Failed to parse response",
                                                   response.status, Undefined, Undefined)]
                          ELSE [threw |-> FALSE, value |-> ApiResponse(body.value, response)]

(***************************************************************************)
(* ApiClient.withRetry                                                     *)
(***************************************************************************)
defaultRetries == RETRY_ATTEMPTS

\* line 91
canRetryInclusive(retries, error) == retries >= 0 /\ shouldRetry(error)

canRetry(retries, error) == retries > 0 /\ shouldRetry(error)

Pow2(n) == IF n <= 0 THEN 1 ELSE 2 ^ n

\* line 92
retryDelayExponential(retries) == RETRY_DELAY * Pow2(defaultRetries - retries)

retryDelay(retries) == RETRY_DELAY * (defaultRetries - retries + 1)

Pending == [state |-> "pending"]
Resolved(value) == [state |-> "resolved", value |-> value]

\* line 96
RejectedWrapped(error) ==
    [state |-> "rejected",
     error |-> [name |-> "Error", message |-> "Max retries exceeded", cause |-> error]]

Rejected(error) == [state |-> "rejected", error |-> error]

\* config.retries: absent, or a number
NoConfig == [given |-> FALSE, retries |-> 0]
WithRetries(n) == [given |-> TRUE, retries |-> n]
Configs == {NoConfig} \cup {WithRetries(n) : n \in 0..MaxRetries}

\* request, line 138
retriesOf(config) == IF config.given THEN config.retries ELSE defaultRetries

NoError == [name |-> "none"]

IdleCall ==
    [pc |-> "idle", config |-> NoConfig, retries |-> 0, requests |-> 0,
     delays |-> <<>>, error |-> NoError, result |-> Pending]

\* get -> request -> withRetry: the first attempt is issued.
startCall(config) ==
    [pc |-> "fetching", config |-> config, retries |-> retriesOf(config), requests |-> 1,
     delays |-> <<>>, error |-> NoError, result |-> Pending]

\* The response arrives (fetch resolves and line 67 clears the timeout) but
\* its body never ends: response.json() / response.text() stays pending.
BodyStalls(outcome) ==
    IF outcome.kind = "response" THEN outcome.stream = "stalled" ELSE FALSE

\* The attempt in flight settles with `outcome`, or is left reading a body
\* that never ends.
settleAttempt(c, outcome) ==
    IF BodyStalls(outcome)
    THEN [c EXCEPT !.pc = "reading"]
    ELSE LET r == operation(outcome)
         IN  IF ~r.threw
             THEN [c EXCEPT !.pc = "done", !.result = Resolved(r.value)]
             ELSE IF canRetry(c.retries, r.value)
                  THEN [c EXCEPT !.pc = "backoff", !.error = r.value,
                                 !.delays = Append(@, retryDelay(c.retries))]
                  ELSE [c EXCEPT !.pc = "done", !.error = r.value,
                                 !.result = Rejected(r.value)]

\* The backoff timer fires: withRetry(operation, retries - 1) issues the next attempt.
nextAttempt(c) ==
    [c EXCEPT !.pc = "fetching", !.retries = @ - 1, !.requests = @ + 1]

(***************************************************************************)
(* Simulated server: what each attempt of a call can meet.                 *)
(***************************************************************************)
Json == "application/json"
JsonUtf8 == "application/json; charset=utf-8"
Plain == "text/plain"

Outcomes ==
    { FetchAborted, FetchFailed, FetchThrewNonError,
      HttpResponse(200, "OK", Json, BodyData, "ok"),
      HttpResponse(200, "OK", JsonUtf8, BodyNull, "ok"),
      HttpResponse(200, "OK", Json, BodyEmpty, "ok"),
      HttpResponse(200, "OK", Plain, BodyText, "ok"),
      HttpResponse(304, "Not Modified", NoHeader, BodyEmpty, "ok"),
      HttpResponse(400, "Bad Request", Json, BodyTopLevel, "ok"),
      HttpResponse(404, "Not Found", Json, BodyStructured, "ok"),
      HttpResponse(404, "Not Found", Json, BodyNull, "ok"),
      HttpResponse(404, "", NoHeader, BodyEmpty, "ok"),
      HttpResponse(422, "Unprocessable Entity", Json, BodyMixed, "ok"),
      HttpResponse(500, "Internal Server Error", Plain, BodyText, "ok"),
      HttpResponse(502, "Bad Gateway", Json, BodyNumber, "ok"),
      HttpResponse(503, "Service Unavailable", Json, BodyStructured, "ok"),
      HttpResponse(503, "Service Unavailable", Json, BodyNull, "ok"),
      HttpResponse(503, "Service Unavailable", Json, BodyStructured, "error") }

(***************************************************************************)
(* types/index.ts: transformMetricsResponse                                *)
(***************************************************************************)
getMetricStatusWarningFirst(value, criticalThreshold, warningThreshold) ==
    IF value > warningThreshold THEN "warning"
    ELSE IF value > criticalThreshold THEN "critical"
    ELSE "healthy"

getMetricStatus(value, criticalThreshold, warningThreshold) ==
    IF value > criticalThreshold THEN "critical"
    ELSE IF value > warningThreshold THEN "warning"
    ELSE "healthy"

getHealthStatusAsUsage(value) ==
    IF value > 90 THEN "critical"
    ELSE IF value > 70 THEN "warning"
    ELSE "healthy"

getHealthStatus(value) ==
    IF value > 90 THEN "healthy"
    ELSE IF value > 70 THEN "warning"
    ELSE "critical"

Metric(name, value, unit, status, timestamp) ==
    [name |-> name, value |-> value, unit |-> unit, status |-> status,
     trend |-> "stable", timestamp |-> timestamp]

transformMetricsResponse(apiResponse) ==
    << Metric("CPU Usage", apiResponse.cpu_usage, "%",
              getMetricStatus(apiResponse.cpu_usage, 80, 60), apiResponse.timestamp),
       Metric("Memory Usage", apiResponse.memory_usage, "%",
              getMetricStatus(apiResponse.memory_usage, 85, 70), apiResponse.timestamp),
       Metric("Network Traffic", apiResponse.network_traffic, "MB/s",
              IF apiResponse.network_traffic > 1000 THEN "warning" ELSE "healthy",
              apiResponse.timestamp),
       Metric("Container Count", apiResponse.container_count, "containers",
              "healthy", apiResponse.timestamp),
       Metric("Overall Health", apiResponse.overall_health, "%",
              getHealthStatus(apiResponse.overall_health), apiResponse.timestamp) >>

(***************************************************************************)
(* hooks/useApi.ts: the polled queries                                     *)
(***************************************************************************)
Resources == {"metrics", "services", "logs", "status"}

\* DEFAULT_QUERY_OPTIONS.staleTime
STALE_TIME == 30000

\* refetchInterval of useMetrics, useServices, useLogs, useSystemStatus
refetchInterval(r) ==
    CASE r = "metrics" -> 5000
      [] r = "services" -> 10000
      [] r = "logs" -> 15000
      [] r = "status" -> 30000

Min(a, b) == IF a <= b THEN a ELSE b

Last(seq) == seq[Len(seq)]

\* DEFAULT_QUERY_OPTIONS.retry
queryRetry(failureCount, error) ==
    IF error.name = "ApiError" /\ error.status >= 400 /\ error.status < 500
    THEN FALSE
    ELSE failureCount < 3

\* DEFAULT_QUERY_OPTIONS.retryDelay
queryRetryDelay(attemptIndex) == Min(1000 * 2 ^ attemptIndex, 30000)

\* queryFn of each hook, applied to the ApiResponse of apiClient.get
queryFn(r, response) ==
    CASE r = "metrics" -> [t |-> "metrics", list |-> transformMetricsResponse(response.data)]
      [] r = "logs" -> response.data.logs
      [] OTHER -> response.data

NoData == UndefinedValue

\* The query state.  `stale` stands for: invalidated, or fetched more than
\* STALE_TIME ago.
InitialQuery ==
    [data |-> NoData, error |-> NoError, fetchStatus |-> "idle",
     fetchFailureCount |-> 0, stale |-> FALSE]

\* The fetch under way: the get call of the running queryFn, or the wait before
\* the query-level retry; `waited` is the backoff time spent in it so far,
\* `failure` the error of the last queryFn run that failed,
\* `retryCancelled` is set when the last consumer left while it was running,
\* and `requests` counts the HTTP requests the fetch has issued.
IdleFetch ==
    [phase |-> "idle", call |-> IdleCall, waited |-> 0, delay |-> 0,
     failure |-> NoError, retryCancelled |-> FALSE, requests |-> 0]

\* A fetch that starts: its queryFn issues apiClient.get.
StartedFetch ==
    [IdleFetch EXCEPT !.phase = "calling", !.call = startCall(NoConfig), !.requests = 1]

\* result.isStale of the hooks
isStale(q) == q.data = NoData \/ q.stale

\* result.isError, result.isLoading
isError(q) == q.error # NoError
isLoading(q) == q.fetchStatus = "fetching" /\ q.data = NoData /\ q.error = NoError

\* A mounting consumer fetches when there is no data or the data is stale.
shouldFetchOnMount(q) == isStale(q)

\* Time `delay` passes within a fetch: data fetched before it began is stale
\* once the fetch has waited STALE_TIME.
afterWaiting(q, waited) ==
    [q EXCEPT !.stale = @ \/ (q.data # NoData /\ waited >= STALE_TIME)]

\* Number of calls of a sequence that have an HTTP request in flight.
Requesting(calls) == Cardinality({i \in DOMAIN calls : calls[i].pc = "fetching"})

\* HTTP requests in flight for the endpoint of resource r.
InFlight(r) ==
    (IF fetch.phase = "calling" /\ fetch.call.pc = "fetching" THEN 1 ELSE 0)
    + Requesting(orphans)
    + (IF r = "status" THEN Requesting(checks) ELSE 0)

\* A sequence without its i-th element.
Without(seq, i) == [k \in 1..(Len(seq) - 1) |-> IF k < i THEN seq[k] ELSE seq[k + 1]]

\* Well-formed 200 payloads of each endpoint.
Payloads(r) ==
    CASE r = "metrics" -> {MetricsBodyA, MetricsBodyB}
      [] r = "services" -> {ServicesBodyA, ServicesBodyB}
      [] r = "logs" -> {LogsBodyA, LogsBodyB}
      [] r = "status" -> {StatusBodyA, StatusBodyB}

\* What the server answers to the requests of the polled resource.
PollOutcomes(r) ==
    { HttpResponse(200, "OK", Json, body, "ok") : body \in Payloads(r) }
    \cup { HttpResponse(404, "Not Found", Json, BodyStructured, "ok"),
           HttpResponse(503, "Service Unavailable", Json, BodyStructured, "ok") }

\* What the server answers to a connection check.
CheckOutcomes ==
    { FetchAborted,
      HttpResponse(200, "OK", Json, StatusBodyA, "ok"),
      HttpResponse(404, "Not Found", Json, BodyStructured, "ok"),
      HttpResponse(503, "Service Unavailable", Json, BodyStructured, "ok") }

\* Query.fetch on the query state q: a fetch under way is joined (and goes on
\* retrying), unless the caller cancels it (cancelRefetch, with data present);
\* otherwise a fetch starts and its queryFn issues apiClient.get.  A cancelled
\* fetch's get call is not aborted and runs on.
QueryFetch(q, cancelRefetch) ==
    IF q.fetchStatus # "idle" /\ ~(q.data # NoData /\ cancelRefetch)
    THEN /\ query' = q
         /\ fetch' = [fetch EXCEPT !.retryCancelled = FALSE]
         /\ UNCHANGED orphans
    ELSE /\ fetch.phase = "calling" => Len(orphans) < MaxOrphans
         /\ orphans' = IF fetch.phase = "calling" THEN Append(orphans, fetch.call)
                       ELSE orphans
         /\ query' = [q EXCEPT !.fetchStatus = "fetching",
                               !.fetchFailureCount = 0,
                               !.error = IF q.data = NoData THEN NoError ELSE @]
         /\ fetch' = StartedFetch

\* No metrics reading has been shown yet.
ViewIdle ==
    /\ metrics = <<>>
    /\ previousMetrics = <<>>

\* The tables as CREATE TABLE leaves them.
StoreEmpty == services = {} /\ logs = <<>>

\* No logs query has been made.
NoLogsResult == [made |-> FALSE]

\* No logs query has been made and the sequence of logs.id is unused.
LogsIdle == logsResult = NoLogsResult /\ logs_id_seq = 0

(***************************************************************************)
(* The telemetry pipeline of the backend, as the specification describes   *)
(* it: RandomWalkEngine, TelemetryGenerator, ServiceHealthSimulator and    *)
(* LogEmitter over the three partitions of TelemetryStore.  Values are     *)
(* whole numbers; network traffic is counted in tens of Mbps.              *)
(***************************************************************************)
MetricNames == {"cpu", "memory", "network", "containers", "health"}

\* The configured domain [lo, hi] of each metric and its step bound.
Domain(name) ==
    CASE name \in {"network", "containers"} -> [lo |-> 0, hi |-> 50]
      [] OTHER -> [lo |-> 0, hi |-> 100]

Delta(name) ==
    CASE name = "containers" -> 2
      [] OTHER -> 5

\* The value each series is seeded with at process start.
Seed(name) ==
    CASE name = "cpu" -> 45
      [] name = "memory" -> 69
      [] name = "network" -> 34
      [] name = "containers" -> 12
      [] name = "health" -> 95

clamp(x, lo, hi) == IF x < lo THEN lo ELSE IF x > hi THEN hi ELSE x

\* RandomWalkEngine without the clamp.
RandomWalkUnclamped(v, step, lo, hi) == v + step

\* RandomWalkEngine: v' = clamp(v + uniform(-delta, delta), lo, hi); step is
\* the number drawn.
RandomWalk(v, step, lo, hi) == clamp(v + step, lo, hi)

SeededSeries(name) == [name |-> name, value |-> Seed(name), previous |-> Seed(name)]

\* The services of the store and their status at start.
SimulatedServices == {"api-gateway", "user-service"}
SeededServices == [id \in SimulatedServices |-> "online"]

\* The transition graph of ServiceHealthSimulator.
ServiceTransitions(status) ==
    CASE status = "online" -> {"online", "degraded"}
      [] status = "degraded" -> {"degraded", "online", "offline"}
      [] status = "offline" -> {"offline", "degraded"}

Tasks == {"services", "logs"}

\* The generation loop at process start; no HTTP read made yet.
EngineStart ==
    [running |-> TRUE, lastTick |-> "none", turn |-> 0, failures |-> 0, lastRead |-> 0]

\* A tick cycle in which no task ran yet.  `seen` is the services partition
\* as the log task read it last; wentOffline and errorsAppended are the
\* services that went offline, and those an error record was appended for, in
\* this cycle.
CycleStart(seen, beat) ==
    [ran |-> {}, seen |-> seen, beat |-> beat, wentOffline |-> {}, errorsAppended |-> {}]

\* QUERY_KEYS, and the keys of the queries in the cache: useLogs keys its
\* query by [...QUERY_KEYS.LOGS, params], one entry per params value.
QueryKeys ==
    { <<"metrics">>, <<"services">>, <<"status">>,
      <<"logs", "{}">>, <<"logs", "{level:ERROR}">> }

\* The options a caller hands to a mutation hook: for each callback, whether
\* the key is absent, holds a function of the caller, or holds undefined.
NoOptions == [onSuccess |-> "absent", onError |-> "absent"]

MutationOptions ==
    [onSuccess : {"absent", "caller", "undefined"}, onError : {"absent", "caller"}]

\* invalidateQueries({ queryKey }): a query matches when the filter's key is a
\* prefix of its key.
partialMatchKey(key, filter) ==
    Len(filter) <= Len(key) /\ SubSeq(key, 1, Len(filter)) = filter

invalidateQueries(filter) == {key \in QueryKeys : partialMatchKey(key, filter)}

\* The key the hook's own onSuccess invalidates.
hookQueryKey(hook) == IF hook = "useCreateLog" THEN <<"logs">> ELSE <<"services">>

\* A merge in which the hook's own onSuccess outlives every options.
mergedOnSuccessHookKept(options) == "hook"

\* { onSuccess: <the hook's>, ...options }: a key present in options, whatever
\* it holds, replaces the one written before the spread.
mergedOnSuccess(options) ==
    IF options.onSuccess = "absent" THEN "hook" ELSE options.onSuccess

\* The mutation's request settles, or goes on to its backoff: when mutationFn
\* resolves the merged onSuccess runs, when it rejects the merged onError.
settleMutation(m, outcome) ==
    LET c == settleAttempt(m.call, outcome)
        onSuccess == mergedOnSuccess(m.options)
    IN  IF c.pc # "done"
        THEN [m EXCEPT !.call = c]
        ELSE IF c.result.state = "resolved"
             THEN [m EXCEPT
                     !.call = c,
                     !.invalidated =
                         IF onSuccess = "hook"
                         THEN @ \cup invalidateQueries(hookQueryKey(m.hook))
                         ELSE @,
                     !.ran = IF onSuccess = "undefined" THEN {}
                             ELSE {<<"onSuccess", onSuccess>>}]
             ELSE [m EXCEPT
                     !.call = c,
                     !.ran = IF m.options.onError = "caller"
                             THEN {<<"onError", "caller">>} ELSE {}]

GeneratorIdle ==
    /\ series = SeededSeries("cpu")
    /\ simulated = SeededServices
    /\ buffer = <<>>
    /\ engine = EngineStart
    /\ cycle = CycleStart(SeededServices, 0)

\* No mutation hook is in use, and no query has been invalidated by one.
MutationIdle ==
    mutation = [hook |-> "none", options |-> NoOptions, call |-> IdleCall,
                invalidated |-> {}, ran |-> {}]

OtherIdle == GeneratorIdle /\ MutationIdle

\* The status query beside the metrics query has not been observed yet.
StatusIdle ==
    /\ statusHook = [query |-> InitialQuery, fetch |-> IdleFetch]
    /\ statusOrphans = <<>>

SideIdle ==
    ViewIdle /\ StoreEmpty /\ LogsIdle /\ StatusIdle /\ OtherIdle

CacheIdle ==
    /\ mounted = FALSE
    /\ query = InitialQuery
    /\ fetch = IdleFetch
    /\ orphans = <<>>
    /\ checks = <<>>
    /\ lastGood = NoData

\* A consumer mounts the hook of the resource (useMetrics, useServices,
\* useLogs, useSystemStatus), possibly beside consumers already mounted.
Mount ==
    /\ mounted' = TRUE
    /\ IF shouldFetchOnMount(query)
       THEN QueryFetch(query, FALSE)
       ELSE UNCHANGED <<query, fetch, orphans>>
    /\ UNCHANGED <<clientVars, sideVars, lastGood, resource, checks>>

\* The last consumer of the hook unmounts: the refetchInterval timer is
\* cleared; a fetch under way runs on, without further query-level retries.
Unmount ==
    /\ mounted
    /\ mounted' = FALSE
    /\ fetch' = IF fetch.phase = "idle" THEN fetch
                ELSE [fetch EXCEPT !.retryCancelled = TRUE]
    /\ UNCHANGED <<clientVars, sideVars, lastGood, resource, query, orphans, checks>>

\* The refetchInterval timer of the hook fires.
IntervalTick ==
    /\ mounted
    /\ QueryFetch([query EXCEPT !.stale = @ \/ (query.data # NoData
                                   /\ refetchInterval(resource) >= STALE_TIME)],
                  FALSE)
    /\ UNCHANGED <<clientVars, sideVars, lastGood, resource, mounted, checks>>

\* handleRefresh of the Services page and of the Logs page: refetch() of the
\* page's one query, from the Refresh button (disabled while isLoading) and
\* from "Try again" of the error alert.  (The Dashboard's handleRefresh
\* refetches its two queries: HandleRefresh.)
Refetch ==
    /\ resource \in {"services", "logs"}
    /\ mounted
    /\ ~isLoading(query) \/ isError(query)
    /\ QueryFetch(query, TRUE)
    /\ UNCHANGED <<clientVars, sideVars, lastGood, resource, mounted, checks>>

\* useRefreshData.refreshMetrics, refreshServices, refreshLogs, refreshStatus:
\* queryClient.invalidateQueries({ queryKey }) for the one resource.
Invalidate ==
    /\ IF mounted
       THEN QueryFetch([query EXCEPT !.stale = TRUE], TRUE)
       ELSE /\ query' = [query EXCEPT !.stale = TRUE]
            /\ UNCHANGED <<fetch, orphans>>
    /\ UNCHANGED <<clientVars, sideVars, lastGood, resource, mounted, checks>>

\* STALE_TIME has passed since the data was fetched.
Expire ==
    /\ query.data # NoData
    /\ ~query.stale
    /\ query' = [query EXCEPT !.stale = TRUE]
    /\ UNCHANGED <<clientVars, sideVars, lastGood, resource, mounted, fetch, orphans, checks>>

\* The request of the running queryFn settles.  The get call either goes on
\* (client backoff), resolves (the data is written to the cache entry), or
\* rejects (query-level retry, or the error is written to the cache entry).
QueryRespond(outcome) ==
    /\ fetch.phase = "calling"
    /\ fetch.call.pc = "fetching"
    /\ LET c == settleAttempt(fetch.call, outcome)
       IN  IF c.pc # "done"
           THEN /\ fetch' = [fetch EXCEPT !.call = c]
                /\ UNCHANGED <<query, lastGood>>
           ELSE IF c.result.state = "resolved"
           THEN /\ query' = [query EXCEPT !.data = queryFn(resource, c.result.value),
                                          !.error = NoError,
                                          !.fetchStatus = "idle",
                                          !.fetchFailureCount = 0,
                                          !.stale = FALSE]
                /\ lastGood' = queryFn(resource, c.result.value)
                /\ fetch' = IdleFetch
           ELSE IF queryRetry(query.fetchFailureCount, c.result.error)
                   /\ ~fetch.retryCancelled
           THEN /\ query' = [query EXCEPT !.fetchFailureCount = @ + 1]
                /\ fetch' = [fetch EXCEPT !.phase = "retryWait", !.call = IdleCall,
                                          !.delay = queryRetryDelay(query.fetchFailureCount),
                                          !.failure = c.result.error]
                /\ UNCHANGED lastGood
           ELSE /\ query' = [query EXCEPT !.error = c.result.error,
                                          !.fetchStatus = "idle",
                                          !.fetchFailureCount = @ + 1]
                /\ UNCHANGED lastGood
                /\ fetch' = IdleFetch
    /\ UNCHANGED <<clientVars, sideVars, resource, mounted, orphans, checks>>

\* The client backoff of the running queryFn's get call ends.
QueryBackoffElapsed ==
    /\ fetch.phase = "calling"
    /\ fetch.call.pc = "backoff"
    /\ LET waited == Min(fetch.waited + Last(fetch.call.delays), STALE_TIME)
       IN  /\ fetch' = [fetch EXCEPT !.call = nextAttempt(@), !.waited = waited,
                                     !.requests = @ + 1]
           /\ query' = afterWaiting(query, waited)
    /\ UNCHANGED <<clientVars, sideVars, lastGood, resource, mounted, orphans, checks>>

\* The query-level retry delay ends: queryFn runs again, unless the retries
\* were cancelled meanwhile, and then the fetch fails with the last error.
QueryRetryElapsed ==
    /\ fetch.phase = "retryWait"
    /\ LET waited == Min(fetch.waited + fetch.delay, STALE_TIME)
       IN  IF fetch.retryCancelled
           THEN /\ fetch' = IdleFetch
                /\ query' = [afterWaiting(query, waited) EXCEPT
                                 !.error = fetch.failure,
                                 !.fetchStatus = "idle",
                                 !.fetchFailureCount = @ + 1]
           ELSE /\ fetch' = [StartedFetch EXCEPT !.waited = waited,
                                                 !.requests = fetch.requests + 1]
                /\ query' = afterWaiting(query, waited)
    /\ UNCHANGED <<clientVars, sideVars, lastGood, resource, mounted, orphans, checks>>

\* The request of a cancelled fetch's get call settles; its result is dropped.
OrphanRespond(i, outcome) ==
    /\ i \in DOMAIN orphans
    /\ orphans[i].pc = "fetching"
    /\ LET c == settleAttempt(orphans[i], outcome)
       IN  orphans' = IF c.pc = "done" THEN Without(orphans, i)
                      ELSE [orphans EXCEPT ![i] = c]
    /\ UNCHANGED <<clientVars, sideVars, lastGood, resource, mounted, query, fetch, checks>>

OrphanBackoffElapsed(i) ==
    /\ i \in DOMAIN orphans
    /\ orphans[i].pc = "backoff"
    /\ orphans' = [orphans EXCEPT ![i] = nextAttempt(@)]
    /\ UNCHANGED <<clientVars, sideVars, lastGood, resource, mounted, query, fetch, checks>>

\* useConnectionStatus.checkConnection: apiClient.get(API_ENDPOINTS.STATUS)
CheckConnection ==
    /\ Len(checks) < MaxChecks
    /\ checks' = Append(checks, startCall(NoConfig))
    /\ UNCHANGED <<clientVars, sideVars, lastGood, resource, mounted, query, fetch, orphans>>

checkResultOptimistic(c) == c.result.state # "pending"

\* What checkConnection returns once its get call has settled.
checkResult(c) == c.result.state = "resolved"

\* The request of a connection check settles.
CheckRespond(i, outcome) ==
    /\ i \in DOMAIN checks
    /\ checks[i].pc = "fetching"
    /\ checks' = [checks EXCEPT ![i] = settleAttempt(@, outcome)]
    /\ UNCHANGED <<clientVars, sideVars, lastGood, resource, mounted, query, fetch, orphans>>

CheckBackoffElapsed(i) ==
    /\ i \in DOMAIN checks
    /\ checks[i].pc = "backoff"
    /\ checks' = [checks EXCEPT ![i] = nextAttempt(@)]
    /\ UNCHANGED <<clientVars, sideVars, lastGood, resource, mounted, query, fetch, orphans>>

(***************************************************************************)
(* One ApiClient.get call                                                  *)
(***************************************************************************)
Init ==
    /\ call = IdleCall
    /\ served = <<>>
    /\ resource = "status"
    /\ CacheIdle
    /\ SideIdle

\* apiClient.get(endpoint, config)
Get(config) ==
    /\ call.pc = "idle"
    /\ call' = startCall(config)
    /\ served' = <<>>
    /\ UNCHANGED <<cacheVars, sideVars>>

\* The fetch of the attempt in flight settles and the attempt is classified.
Respond(outcome) ==
    /\ call.pc = "fetching"
    /\ call' = settleAttempt(call, outcome)
    /\ served' = Append(served, outcome)
    /\ UNCHANGED <<cacheVars, sideVars>>

\* setTimeout(resolve, delay) of line 93 fires.
BackoffElapsed ==
    /\ call.pc = "backoff"
    /\ call' = nextAttempt(call)
    /\ UNCHANGED <<served, cacheVars, sideVars>>

Next ==
    \/ \E config \in Configs : Get(config)
    \/ \E outcome \in Outcomes : Respond(outcome)
    \/ BackoffElapsed

Spec == Init /\ [][Next]_vars

(***************************************************************************)
(* One ApiClient.get call against a server that may also send the headers  *)
(* of a response and never finish its body; the fetch of every attempt     *)
(* comes to an end (a response, a failure, or the abort of the timeout) and *)
(* every backoff timer fires.                                              *)
(***************************************************************************)
SettleOutcomes ==
    { FetchAborted,
      HttpResponse(200, "OK", Json, BodyData, "ok"),
      HttpResponse(404, "Not Found", Json, BodyStructured, "ok"),
      HttpResponse(503, "Service Unavailable", Json, BodyStructured, "ok"),
      HttpResponse(200, "OK", Json, BodyData, "stalled"),
      HttpResponse(503, "Service Unavailable", Json, BodyStructured, "stalled") }

AttemptEnds == \E outcome \in SettleOutcomes : Respond(outcome)

SettleNext ==
    \/ \E config \in Configs : Get(config)
    \/ \E outcome \in SettleOutcomes : Respond(outcome)
    \/ BackoffElapsed

SettleFairSpec ==
    Init /\ [][SettleNext]_vars /\ WF_vars(AttemptEnds) /\ WF_vars(BackoffElapsed)

(***************************************************************************)
(* The polled cache entry of one resource, with its consumers, the manual  *)
(* refreshes and the connection checks.                                    *)
(***************************************************************************)
CacheInit ==
    /\ call = IdleCall
    /\ served = <<>>
    /\ resource \in Resources
    /\ CacheIdle
    /\ SideIdle

CacheNext ==
    \/ Mount
    \/ IntervalTick
    \/ Refetch
    \/ Invalidate
    \/ Expire
    \/ \E outcome \in PollOutcomes(resource) : QueryRespond(outcome)
    \/ QueryBackoffElapsed
    \/ QueryRetryElapsed
    \/ \E i \in 1..MaxOrphans : \E outcome \in PollOutcomes(resource) : OrphanRespond(i, outcome)
    \/ \E i \in 1..MaxOrphans : OrphanBackoffElapsed(i)
    \/ CheckConnection
    \/ \E i \in 1..MaxChecks : \E outcome \in CheckOutcomes : CheckRespond(i, outcome)
    \/ \E i \in 1..MaxChecks : CheckBackoffElapsed(i)

CacheSpec == CacheInit /\ [][CacheNext]_vars

(***************************************************************************)
(* The cache entry of one resource with consumers that come and go: the    *)
(* interval timer, mounts and unmounts, manual refreshes, invalidations.   *)
(***************************************************************************)
PollNext ==
    \/ IntervalTick
    \/ Mount
    \/ Unmount
    \/ Refetch
    \/ Invalidate
    \/ Expire
    \/ \E outcome \in PollOutcomes(resource) : QueryRespond(outcome)
    \/ QueryBackoffElapsed
    \/ QueryRetryElapsed
    \/ \E i \in 1..MaxOrphans : \E outcome \in PollOutcomes(resource) : OrphanRespond(i, outcome)
    \/ \E i \in 1..MaxOrphans : OrphanBackoffElapsed(i)

PollSpec == CacheInit /\ [][PollNext]_vars

(***************************************************************************)
(* Successive metrics readings, each transformed for display as useMetrics *)
(* does with the data of every response.                                   *)
(***************************************************************************)
MetricsApiResponse(cpu, memory, network, containers, health, timestamp) ==
    [cpu_usage |-> cpu, memory_usage |-> memory, network_traffic |-> network,
     container_count |-> containers, overall_health |-> health, timestamp |-> timestamp]

\* Values the metrics endpoint reports, on and around every threshold.
CpuValues == {59, 60, 61, 81}
MemoryValues == {70, 86}
NetworkValues == {1000, 1001}
ContainerValues == {11, 12}
HealthValues == {65, 71, 95}
Timestamps == {"t1"}

MetricsInit ==
    /\ call = IdleCall
    /\ served = <<>>
    /\ resource = "metrics"
    /\ CacheIdle
    /\ SideIdle

\* queryFn of useMetrics on the data of a response.
ReadMetrics(apiResponse) ==
    /\ metrics' = transformMetricsResponse(apiResponse)
    /\ previousMetrics' = metrics
    /\ UNCHANGED <<clientVars, cacheVars, storeVars, logsVars, dashVars, otherVars>>

MetricsNext ==
    \E cpu \in CpuValues, memory \in MemoryValues, network \in NetworkValues,
       containers \in ContainerValues, health \in HealthValues, timestamp \in Timestamps :
        ReadMetrics(MetricsApiResponse(cpu, memory, network, containers, health, timestamp))

MetricsSpec == MetricsInit /\ [][MetricsNext]_vars

(***************************************************************************)
(* backend/init-db.sql: the services table.  A column value is NULL or a   *)
(* value; uptime DECIMAL(5,2) is counted in hundredths.  The timestamp     *)
(* columns are not followed.  A statement that violates a constraint fails *)
(* and leaves the table as it was.                                         *)
(***************************************************************************)
SqlNull == [null |-> TRUE]
SqlValue(v) == [null |-> FALSE, v |-> v]

ServiceRow(id, name, status, uptime) ==
    [id |-> id, name |-> name, status |-> status, uptime |-> uptime]

\* DEFAULT 0.0
UptimeDefault == SqlValue(0)

\* NOT NULL
NotNull(value) == ~value.null

\* CHECK (status IN ('online', 'degraded', 'offline')): a CHECK holds when its
\* condition is true or unknown.
StatusCheck(status) ==
    IF status.null THEN TRUE ELSE status.v \in {"online", "degraded", "offline"}

\* CHECK (uptime >= 0.0 AND uptime <= 100.0)
UptimeCheck(uptime) ==
    IF uptime.null THEN TRUE ELSE uptime.v >= 0 /\ uptime.v <= 10000

\* DECIMAL(5,2): at most three digits before the point
DecimalFits(uptime) ==
    IF uptime.null THEN TRUE ELSE uptime.v > -100000 /\ uptime.v < 100000

\* The column constraints of one services row.
ServiceRowValid(row) ==
    /\ NotNull(row.id)
    /\ NotNull(row.name)
    /\ NotNull(row.status)
    /\ StatusCheck(row.status)
    /\ DecimalFits(row.uptime)
    /\ UptimeCheck(row.uptime)

\* PRIMARY KEY (id)
ServiceById(table, id) == {row \in table : row.id = id}

\* INSERT INTO services (id, name, status, uptime) VALUES (...)
InsertService(row) ==
    /\ ServiceRowValid(row)
    /\ ServiceById(services, row.id) = {}
    /\ services' = services \cup {row}
    /\ UNCHANGED <<clientVars, cacheVars, viewVars, logs, logsVars, dashVars, otherVars>>

\* INSERT INTO services (id, name, status) VALUES (...): uptime takes its default.
InsertServiceDefaultUptime(id, name, status) ==
    InsertService(ServiceRow(id, name, status, UptimeDefault))

\* UPDATE services SET status = ..., uptime = ... WHERE id = ...
UpdateService(id, status, uptime) ==
    /\ \E old \in ServiceById(services, id) :
          LET new == [old EXCEPT !.status = status, !.uptime = uptime]
          IN  /\ ServiceRowValid(new)
              /\ services' = (services \ {old}) \cup {new}
    /\ UNCHANGED <<clientVars, cacheVars, viewVars, logs, logsVars, dashVars, otherVars>>

\* The rows of the seeding INSERT.
SeedServices ==
    { ServiceRow(SqlValue("api-gateway"), SqlValue("API Gateway"), SqlValue("online"), SqlValue(9998)),
      ServiceRow(SqlValue("user-service"), SqlValue("User Service"), SqlValue("online"), SqlValue(9995)),
      ServiceRow(SqlValue("payment-service"), SqlValue("Payment Service"), SqlValue("online"), SqlValue(9987)),
      ServiceRow(SqlValue("notification-service"), SqlValue("Notification Service"),
                 SqlValue("degraded"), SqlValue(9845)),
      ServiceRow(SqlValue("analytics-service"), SqlValue("Analytics Service"), SqlValue("online"), SqlValue(9992)),
      ServiceRow(SqlValue("file-storage"), SqlValue("File Storage"), SqlValue("online"), SqlValue(9999)) }

\* INSERT ... ON CONFLICT (id) DO UPDATE SET ...: each seed row is inserted, or
\* replaces name, status and uptime of the row that has its id.
SeedServicesTable ==
    /\ \A row \in SeedServices : ServiceRowValid(row)
    /\ services' = {row \in services : ServiceById(SeedServices, row.id) = {}} \cup SeedServices
    /\ UNCHANGED <<clientVars, cacheVars, viewVars, logs, logsVars, dashVars, otherVars>>

\* Statements the model issues against the table.
ServiceIds == {SqlNull, SqlValue("api-gateway"), SqlValue("notification-service"),
               SqlValue("search-service")}
ServiceStatusInputs == {SqlNull, SqlValue("online"), SqlValue("offline"), SqlValue("unknown")}
UptimeInputs == {SqlNull, SqlValue(-1), SqlValue(0), SqlValue(5000), SqlValue(10000),
                 SqlValue(10001), SqlValue(100000)}

ServicesInit ==
    /\ call = IdleCall
    /\ served = <<>>
    /\ resource = "services"
    /\ CacheIdle
    /\ SideIdle

ServicesNext ==
    \/ SeedServicesTable
    \/ \E id \in ServiceIds, status \in ServiceStatusInputs, uptime \in UptimeInputs :
          InsertService(ServiceRow(id, SqlValue("Search"), status, uptime))
    \/ \E id \in ServiceIds, status \in ServiceStatusInputs :
          InsertServiceDefaultUptime(id, SqlValue("Search"), status)
    \/ \E id \in ServiceIds, status \in ServiceStatusInputs, uptime \in UptimeInputs :
          UpdateService(id, status, uptime)

ServicesSpec == ServicesInit /\ [][ServicesNext]_vars

(***************************************************************************)
(* backend/init-db.sql: the logs table, rows in insertion order.           *)
(* Timestamps are counted in minutes.                                      *)
(***************************************************************************)
LogRow(id, timestamp, level, message, service_name) ==
    [id |-> id, timestamp |-> timestamp, level |-> level, message |-> message,
     service_name |-> service_name]

\* CHECK (level IN ('info', 'warning', 'error', 'debug'))
LevelCheck(level) ==
    IF level.null THEN TRUE ELSE level.v \in {"info", "warning", "error", "debug"}

\* The column constraints of one logs row.
LogRowValid(row) ==
    /\ NotNull(row.level)
    /\ LevelCheck(row.level)
    /\ NotNull(row.message)
    /\ NotNull(row.service_name)

\* id SERIAL: nextval of the sequence, whose last value is `last`.
NextLogId(last) == last + 1

\* INSERT INTO logs (level, message, service_name, timestamp) VALUES (...):
\* the default of id takes the next value of the sequence, then the
\* constraints are checked; a statement that fails adds no row and has used
\* up the value all the same.
InsertLog(level, message, service_name, timestamp) ==
    /\ logs_id_seq < MaxLogId
    /\ logs_id_seq' = NextLogId(logs_id_seq)
    /\ LET row == LogRow(NextLogId(logs_id_seq), timestamp, level, message, service_name)
       IN  logs' = IF LogRowValid(row) THEN Append(logs, row) ELSE logs
    /\ UNCHANGED <<clientVars, cacheVars, viewVars, services, logsResult, dashVars, otherVars>>

\* The rows of the sample INSERT, with NOW() = 0.
SeedLogRow(id, level, message, service_name, minutesAgo) ==
    LogRow(id, SqlValue(0 - minutesAgo), SqlValue(level), SqlValue(message),
           SqlValue(service_name))

SeedLogs ==
    << SeedLogRow(1, "info", "Service started successfully", "api-gateway", 60),
       SeedLogRow(2, "info", "Database connection established", "user-service", 50),
       SeedLogRow(3, "warning", "High memory usage detected", "payment-service", 30),
       SeedLogRow(4, "error", "Failed to connect to external API", "notification-service", 25),
       SeedLogRow(5, "info", "Batch processing completed", "analytics-service", 20),
       SeedLogRow(6, "info", "File upload successful", "file-storage", 15),
       SeedLogRow(7, "warning", "Slow query detected", "user-service", 10),
       SeedLogRow(8, "error", "Payment processing failed", "payment-service", 5),
       SeedLogRow(9, "info", "Cache cleared successfully", "api-gateway", 2),
       SeedLogRow(10, "info", "Health check passed", "analytics-service", 1) >>

\* A table holding 5 error and 3 info rows, inserted out of time order and
\* with two rows of the same instant.
FiveErrorsThreeInfos ==
    << LogRow(1, SqlValue(5), SqlValue("error"), SqlValue("e1"), SqlValue("api-gateway")),
       LogRow(2, SqlValue(2), SqlValue("info"), SqlValue("i1"), SqlValue("api-gateway")),
       LogRow(3, SqlValue(7), SqlValue("error"), SqlValue("e2"), SqlValue("user-service")),
       LogRow(4, SqlValue(8), SqlValue("info"), SqlValue("i2"), SqlValue("user-service")),
       LogRow(5, SqlValue(7), SqlValue("error"), SqlValue("e3"), SqlValue("api-gateway")),
       LogRow(6, SqlValue(1), SqlValue("error"), SqlValue("e4"), SqlValue("api-gateway")),
       LogRow(7, SqlValue(9), SqlValue("info"), SqlValue("i3"), SqlValue("api-gateway")),
       LogRow(8, SqlValue(3), SqlValue("error"), SqlValue("e5"), SqlValue("user-service")) >>

\* The latest instant of the table.
NewestTimestamp(table) ==
    CHOOSE t \in {table[i].timestamp.v : i \in DOMAIN table} :
        \A i \in DOMAIN table : table[i].timestamp.v <= t

(***************************************************************************)
(* hooks/useApi.ts: useLogs.  An optional field of params is absent or     *)
(* given; the request is the path with the appended query parameters.      *)
(***************************************************************************)
Absent == [given |-> FALSE]
Given(v) == [given |-> TRUE, v |-> v]

LogsParams(limit, level, service, offset) ==
    [limit |-> limit, level |-> level, service |-> service, offset |-> offset]

\* if (n): a number that is given and not 0
TruthyNumber(p) == IF p.given THEN p.v # 0 ELSE FALSE

\* if (s): a string that is given and not empty
TruthyString(p) == IF p.given THEN p.v # "" ELSE FALSE

\* API_ENDPOINTS.LOGS
LOGS == "/logs/"

\* lines 78-83
queryParams(params) ==
    (IF TruthyNumber(params.limit) THEN << <<"limit", ToString(params.limit.v)>> >> ELSE <<>>)
    \o (IF TruthyString(params.level) THEN << <<"level", params.level.v>> >> ELSE <<>>)
    \o (IF TruthyString(params.service) THEN << <<"service", params.service.v>> >> ELSE <<>>)
    \o (IF TruthyNumber(params.offset) THEN << <<"offset", ToString(params.offset.v)>> >> ELSE <<>>)

\* lines 85-86: the endpoint requested
logsEndpoint(params) == [path |-> LOGS, query |-> queryParams(params)]

(***************************************************************************)
(* GET logs, as the specification describes the endpoint: exact-match      *)
(* filters, newest first with ties in insertion order, offset and limit.   *)
(***************************************************************************)
DefaultLimit == 50
MaxNumber == 50

\* The value of a search parameter, absent or given.
QueryParam(search, key) ==
    IF \E i \in DOMAIN search : search[i][1] = key
    THEN Given(search[CHOOSE i \in DOMAIN search : search[i][1] = key][2])
    ELSE Absent

\* The number a decimal text stands for.
ParseNumber(text) == CHOOSE n \in 0..MaxNumber : ToString(n) = text

\* Row a comes before row b in the answer.
Newer(a, b) ==
    \/ a.timestamp.v > b.timestamp.v
    \/ (a.timestamp.v = b.timestamp.v /\ a.id < b.id)

NewestFirst(rows) ==
    [k \in 1..Len(rows) |->
        rows[CHOOSE i \in 1..Len(rows) :
                Cardinality({j \in 1..Len(rows) : Newer(rows[j], rows[i])}) = k - 1]]

\* The JSON of one row.
LogEntry(row) ==
    [id |-> row.id, timestamp |-> row.timestamp.v, level |-> row.level.v,
     message |-> row.message.v, service_name |-> row.service_name.v]

Matches(row, level, service) ==
    /\ (IF level.given THEN row.level.v = level.v ELSE TRUE)
    /\ (IF service.given THEN row.service_name.v = service.v ELSE TRUE)

GetLogs(table, search) ==
    LET level == QueryParam(search, "level")
        service == QueryParam(search, "service")
        limitParam == QueryParam(search, "limit")
        offsetParam == QueryParam(search, "offset")
        limit == IF limitParam.given THEN ParseNumber(limitParam.v) ELSE DefaultLimit
        offset == IF offsetParam.given THEN ParseNumber(offsetParam.v) ELSE 0
        matching == SelectSeq(table, LAMBDA row : Matches(row, level, service))
        sorted == NewestFirst(matching)
        page == SubSeq(sorted, offset + 1, Min(Len(sorted), offset + limit))
    IN  [logs |-> [k \in 1..Len(page) |-> LogEntry(page[k])],
         total |-> Len(matching), limit |-> limit, offset |-> offset]

(***************************************************************************)
(* The logs table under inserts, and useLogs queries against it.           *)
(***************************************************************************)
LogStores == {SeedLogs, FiveErrorsThreeInfos}

LimitInputs == {Absent, Given(0), Given(2)}
LevelInputs == {Absent, Given("error")}
ServiceInputs == {Absent, Given("api-gateway"), Given("user")}
OffsetInputs == {Absent, Given(1)}

LogLevelInputs == {SqlNull, SqlValue("error"), SqlValue("debug"), SqlValue("trace")}

LogsInit ==
    /\ call = IdleCall
    /\ served = <<>>
    /\ resource = "logs"
    /\ CacheIdle
    /\ ViewIdle
    /\ services = {}
    /\ logs \in LogStores
    /\ logsResult = NoLogsResult
    /\ logs_id_seq = Len(logs)
    /\ StatusIdle
    /\ OtherIdle

\* What the request of a logs query meets: the answer the endpoint has read
\* from the table arrives, or the request fails.
LogsAnswered == [kind |-> "answered"]

\* The endpoint has not read the table for the request that is out.
NoAnswer == [read |-> FALSE]

LogsOutcomes ==
    { LogsAnswered, FetchAborted,
      HttpResponse(404, "Not Found", Json, BodyStructured, "ok"),
      HttpResponse(503, "Service Unavailable", Json, BodyStructured, "ok") }

\* The logs query r settles the request it has out: with the answer the
\* endpoint read for it queryFn returns response.data.logs; a failed request
\* is retried by the client or rejects queryFn.
settleLogs(r, outcome) ==
    IF outcome = LogsAnswered
    THEN [r EXCEPT !.call = [@ EXCEPT !.pc = "done", !.result = Resolved(r.answer.body)],
                   !.answer = NoAnswer,
                   !.data = r.answer.body.logs]
    ELSE [r EXCEPT !.call = settleAttempt(@, outcome), !.answer = NoAnswer]

\* queryFn of useLogs(params) has returned the logs of a response.
LogsReturned ==
    logsResult.made /\ logsResult.call.result.state = "resolved"

\* queryFn of useLogs(params) is called: apiClient.get(endpoint) goes out.
QueryLogs(params) ==
    /\ logsResult.made => logsResult.call.pc = "done"
    /\ logsResult' = [made |-> TRUE, params |-> params, endpoint |-> logsEndpoint(params),
                      call |-> startCall(NoConfig), answer |-> NoAnswer, data |-> <<>>]
    /\ UNCHANGED <<clientVars, cacheVars, viewVars, storeVars, logs_id_seq, dashVars, otherVars>>

\* The endpoint handles the request that is out: it reads the table as it
\* is now and sends the answer, which is on its way from then on.
LogsServe ==
    /\ logsResult.made
    /\ logsResult.call.pc = "fetching"
    /\ ~logsResult.answer.read
    /\ logsResult' = [logsResult EXCEPT
                         !.answer = [read |-> TRUE,
                                     body |-> GetLogs(logs, logsResult.endpoint.query)]]
    /\ UNCHANGED <<clientVars, cacheVars, viewVars, storeVars, logs_id_seq, dashVars, otherVars>>

\* The request of the logs query settles: the answer read for it arrives, the
\* server refuses it instead of reading the table, or the timeout aborts it.
LogsRespond(outcome) ==
    /\ logsResult.made
    /\ logsResult.call.pc = "fetching"
    /\ IF outcome = LogsAnswered THEN logsResult.answer.read
       ELSE IF outcome = FetchAborted THEN TRUE
       ELSE ~logsResult.answer.read
    /\ logsResult' = settleLogs(logsResult, outcome)
    /\ UNCHANGED <<clientVars, cacheVars, viewVars, storeVars, logs_id_seq, dashVars, otherVars>>

\* The client backoff of the logs query's get call ends.
LogsBackoffElapsed ==
    /\ logsResult.made
    /\ logsResult.call.pc = "backoff"
    /\ logsResult' = [logsResult EXCEPT !.call = nextAttempt(@)]
    /\ UNCHANGED <<clientVars, cacheVars, viewVars, storeVars, logs_id_seq, dashVars, otherVars>>

LogsNext ==
    \/ LogsServe
    \/ \E outcome \in LogsOutcomes : LogsRespond(outcome)
    \/ LogsBackoffElapsed
    \/ \E level \in LogLevelInputs,
          timestamp \in {NewestTimestamp(logs), NewestTimestamp(logs) + 1} :
            InsertLog(level, SqlValue("m"), SqlValue("api-gateway"), SqlValue(timestamp))
    \/ \E limit \in LimitInputs, level \in LevelInputs, service \in ServiceInputs,
          offset \in OffsetInputs :
            QueryLogs(LogsParams(limit, level, service, offset))

LogsSpec == LogsInit /\ [][LogsNext]_vars

(***************************************************************************)
(* pages/Dashboard.tsx: the page mounts useMetrics and useSystemStatus      *)
(* side by side.  `query` and `fetch` are the metrics query, `statusHook`   *)
(* holds the same two of the status query; both run the same machine.      *)
(***************************************************************************)
\* Query.fetch of a hook's own fetches (mount, refetchInterval) on the query
\* state q with fetch f: a fetch under way is joined, otherwise one starts.
Fetched(q, f) ==
    IF q.fetchStatus # "idle"
    THEN [query |-> q, fetch |-> [f EXCEPT !.retryCancelled = FALSE]]
    ELSE [query |-> [q EXCEPT !.fetchStatus = "fetching",
                              !.fetchFailureCount = 0,
                              !.error = IF q.data = NoData THEN NoError ELSE @],
          fetch |-> StartedFetch]

\* The request of the running queryFn of resource r settles with outcome.
Responded(r, q, f, outcome) ==
    LET c == settleAttempt(f.call, outcome)
    IN  IF c.pc # "done"
        THEN [query |-> q, fetch |-> [f EXCEPT !.call = c]]
        ELSE IF c.result.state = "resolved"
        THEN [query |-> [q EXCEPT !.data = queryFn(r, c.result.value),
                                  !.error = NoError,
                                  !.fetchStatus = "idle",
                                  !.fetchFailureCount = 0,
                                  !.stale = FALSE],
              fetch |-> IdleFetch]
        ELSE IF queryRetry(q.fetchFailureCount, c.result.error) /\ ~f.retryCancelled
        THEN [query |-> [q EXCEPT !.fetchFailureCount = @ + 1],
              fetch |-> [f EXCEPT !.phase = "retryWait", !.call = IdleCall,
                                  !.delay = queryRetryDelay(q.fetchFailureCount),
                                  !.failure = c.result.error]]
        ELSE [query |-> [q EXCEPT !.error = c.result.error,
                                  !.fetchStatus = "idle",
                                  !.fetchFailureCount = @ + 1],
              fetch |-> IdleFetch]

\* The client backoff of the running queryFn's get call ends.
AttemptBackoffElapsed(q, f) ==
    LET waited == Min(f.waited + Last(f.call.delays), STALE_TIME)
    IN  [query |-> afterWaiting(q, waited),
         fetch |-> [f EXCEPT !.call = nextAttempt(@), !.waited = waited,
                             !.requests = @ + 1]]

\* The query-level retry delay ends.
RetryElapsed(q, f) ==
    LET waited == Min(f.waited + f.delay, STALE_TIME)
    IN  IF f.retryCancelled
        THEN [query |-> [afterWaiting(q, waited) EXCEPT
                             !.error = f.failure,
                             !.fetchStatus = "idle",
                             !.fetchFailureCount = @ + 1],
              fetch |-> IdleFetch]
        ELSE [query |-> afterWaiting(q, waited),
              fetch |-> [StartedFetch EXCEPT !.waited = waited,
                                             !.requests = f.requests + 1]]

\* Query.fetch of refetch() and invalidateQueries (cancelRefetch) on the query
\* state q with fetch f: a fetch under way of a query holding data is
\* cancelled and a new one starts; otherwise as a hook's own fetch.
Refetched(q, f) ==
    IF q.fetchStatus # "idle" /\ q.data # NoData
    THEN Fetched([q EXCEPT !.fetchStatus = "idle"], f)
    ELSE Fetched(q, f)

\* The fetch that Refetched cancels has a request out, which runs on.
LeavesOrphan(q, f) ==
    q.fetchStatus # "idle" /\ q.data # NoData /\ f.phase = "calling"

\* Dashboard lines 22-23
dashboardIsLoading == isLoading(query) \/ isLoading(statusHook.query)

dashboardHasError == isError(query) \/ isError(statusHook.query)

\* Dashboard lines 95-117: what the page shows in the place of the metric cards.
DashboardMetricsArea ==
    IF dashboardIsLoading
    THEN [shows |-> "loader"]
    ELSE IF query.data # NoData /\ Len(query.data.list) > 0
    THEN [shows |-> "cards", metrics |-> query.data.list]
    ELSE IF ~dashboardHasError
    THEN [shows |-> "empty"]
    ELSE [shows |-> "nothing"]

\* What the server answers to the requests of the Dashboard's two hooks: the
\* resource, or a failure that both layers retry.
DashboardOutcomes(r) ==
    { HttpResponse(200, "OK", Json, IF r = "metrics" THEN MetricsBodyA ELSE StatusBodyA, "ok"),
      HttpResponse(503, "Service Unavailable", Json, BodyStructured, "ok") }

DashboardInit ==
    /\ call = IdleCall
    /\ served = <<>>
    /\ resource = "metrics"
    /\ CacheIdle
    /\ SideIdle

\* The Dashboard mounts: both hooks mount and fetch what is missing or stale.
DashboardMount ==
    /\ ~mounted
    /\ mounted' = TRUE
    /\ IF shouldFetchOnMount(query)
       THEN QueryFetch(query, FALSE)
       ELSE UNCHANGED <<query, fetch, orphans>>
    /\ statusHook' = IF shouldFetchOnMount(statusHook.query)
                     THEN Fetched(statusHook.query, statusHook.fetch)
                     ELSE statusHook
    /\ UNCHANGED <<clientVars, resource, checks, lastGood, viewVars, storeVars, logsVars,
                   statusOrphans, otherVars>>

\* The refetchInterval timer of useSystemStatus fires.
StatusIntervalTick ==
    /\ mounted
    /\ statusHook' =
         Fetched([statusHook.query EXCEPT
                      !.stale = @ \/ (statusHook.query.data # NoData
                                         /\ refetchInterval("status") >= STALE_TIME)],
                 statusHook.fetch)
    /\ UNCHANGED <<clientVars, cacheVars, viewVars, storeVars, logsVars, statusOrphans, otherVars>>

\* The request of the status query's queryFn settles.
StatusRespond(outcome) ==
    /\ statusHook.fetch.phase = "calling"
    /\ statusHook.fetch.call.pc = "fetching"
    /\ statusHook' = Responded("status", statusHook.query, statusHook.fetch, outcome)
    /\ UNCHANGED <<clientVars, cacheVars, viewVars, storeVars, logsVars, statusOrphans, otherVars>>

StatusBackoffElapsed ==
    /\ statusHook.fetch.phase = "calling"
    /\ statusHook.fetch.call.pc = "backoff"
    /\ statusHook' = AttemptBackoffElapsed(statusHook.query, statusHook.fetch)
    /\ UNCHANGED <<clientVars, cacheVars, viewVars, storeVars, logsVars, statusOrphans, otherVars>>

StatusRetryElapsed ==
    /\ statusHook.fetch.phase = "retryWait"
    /\ statusHook' = RetryElapsed(statusHook.query, statusHook.fetch)
    /\ UNCHANGED <<clientVars, cacheVars, viewVars, storeVars, logsVars, statusOrphans, otherVars>>

\* Dashboard lines 25-28: handleRefresh, bound to the Refresh button (disabled
\* while isLoading) and to "Try again" of the error alert.
HandleRefresh ==
    /\ mounted
    /\ ~dashboardIsLoading \/ dashboardHasError
    /\ QueryFetch(query, TRUE)
    /\ LeavesOrphan(statusHook.query, statusHook.fetch) => Len(statusOrphans) < MaxOrphans
    /\ statusHook' = Refetched(statusHook.query, statusHook.fetch)
    /\ statusOrphans' = IF LeavesOrphan(statusHook.query, statusHook.fetch)
                        THEN Append(statusOrphans, statusHook.fetch.call)
                        ELSE statusOrphans
    /\ UNCHANGED <<clientVars, resource, mounted, checks, lastGood, viewVars, storeVars,
                   logsVars, otherVars>>

\* useRefreshData.refreshAll: invalidateQueries() without a filter marks every
\* query of the cache stale and refetches those with a mounted consumer.
RefreshAll ==
    /\ IF mounted
       THEN /\ QueryFetch([query EXCEPT !.stale = TRUE], TRUE)
            /\ LeavesOrphan(statusHook.query, statusHook.fetch)
                  => Len(statusOrphans) < MaxOrphans
            /\ statusHook' = Refetched([statusHook.query EXCEPT !.stale = TRUE],
                                       statusHook.fetch)
            /\ statusOrphans' = IF LeavesOrphan(statusHook.query, statusHook.fetch)
                                THEN Append(statusOrphans, statusHook.fetch.call)
                                ELSE statusOrphans
       ELSE /\ query' = [query EXCEPT !.stale = TRUE]
            /\ statusHook' = [statusHook EXCEPT !.query.stale = TRUE]
            /\ UNCHANGED <<fetch, orphans, statusOrphans>>
    /\ UNCHANGED <<clientVars, resource, mounted, checks, lastGood, viewVars, storeVars,
                   logsVars, otherVars>>

\* The request of a cancelled status fetch's get call settles; its result is
\* dropped.
StatusOrphanRespond(i, outcome) ==
    /\ i \in DOMAIN statusOrphans
    /\ statusOrphans[i].pc = "fetching"
    /\ LET c == settleAttempt(statusOrphans[i], outcome)
       IN  statusOrphans' = IF c.pc = "done" THEN Without(statusOrphans, i)
                            ELSE [statusOrphans EXCEPT ![i] = c]
    /\ UNCHANGED <<clientVars, cacheVars, viewVars, storeVars, logsVars, statusHook, otherVars>>

StatusOrphanBackoffElapsed(i) ==
    /\ i \in DOMAIN statusOrphans
    /\ statusOrphans[i].pc = "backoff"
    /\ statusOrphans' = [statusOrphans EXCEPT ![i] = nextAttempt(@)]
    /\ UNCHANGED <<clientVars, cacheVars, viewVars, storeVars, logsVars, statusHook, otherVars>>

DashboardNext ==
    \/ DashboardMount
    \/ HandleRefresh
    \/ RefreshAll
    \/ IntervalTick
    \/ StatusIntervalTick
    \/ \E i \in 1..MaxOrphans :
          \E outcome \in DashboardOutcomes("metrics") : OrphanRespond(i, outcome)
    \/ \E i \in 1..MaxOrphans : OrphanBackoffElapsed(i)
    \/ \E i \in 1..MaxOrphans :
          \E outcome \in DashboardOutcomes("status") : StatusOrphanRespond(i, outcome)
    \/ \E i \in 1..MaxOrphans : StatusOrphanBackoffElapsed(i)
    \/ \E outcome \in DashboardOutcomes("metrics") : QueryRespond(outcome)
    \/ QueryBackoffElapsed
    \/ QueryRetryElapsed
    \/ \E outcome \in DashboardOutcomes("status") : StatusRespond(outcome)
    \/ StatusBackoffElapsed
    \/ StatusRetryElapsed

DashboardSpec == DashboardInit /\ [][DashboardNext]_vars

(***************************************************************************)
(* TelemetryGenerator: the metrics task.  Each tick walks the series and   *)
(* commits it; a tick that throws is logged and absorbed by the loop.      *)
(***************************************************************************)
GeneratorInit ==
    /\ call = IdleCall
    /\ served = <<>>
    /\ resource = "metrics"
    /\ CacheIdle
    /\ ViewIdle
    /\ StoreEmpty
    /\ LogsIdle
    /\ StatusIdle
    /\ MutationIdle
    /\ series \in {SeededSeries(name) : name \in MetricNames}
    /\ simulated = SeededServices
    /\ buffer = <<>>
    /\ engine = EngineStart
    /\ cycle = CycleStart(SeededServices, 0)

\* A tick of the metrics task that commits: step is the number drawn.
TickMetrics(step) ==
    /\ engine.running
    /\ series' = [series EXCEPT
                     !.previous = series.value,
                     !.value = RandomWalk(series.value, step,
                                          Domain(series.name).lo, Domain(series.name).hi)]
    /\ engine' = [engine EXCEPT !.lastTick = "committed", !.turn = 1 - @]
    /\ UNCHANGED <<clientVars, cacheVars, viewVars, storeVars, logsVars, dashVars, mutVars,
                   simulated, buffer, cycle>>

\* A tick that throws and takes the generation loop down with it.
TickMetricsThrowsAndStops ==
    /\ engine.running
    /\ engine.failures < MaxFailures
    /\ engine' = [engine EXCEPT !.running = FALSE, !.lastTick = "failed",
                                !.turn = 1 - @, !.failures = @ + 1]
    /\ UNCHANGED <<clientVars, cacheVars, viewVars, storeVars, logsVars, dashVars, mutVars,
                   series, simulated, buffer, cycle>>

\* A tick that throws: the failure is logged, nothing is committed and the
\* loop goes on.
TickMetricsThrows ==
    /\ engine.running
    /\ engine.failures < MaxFailures
    /\ engine' = [engine EXCEPT !.lastTick = "failed", !.turn = 1 - @,
                                !.failures = @ + 1]
    /\ UNCHANGED <<clientVars, cacheVars, viewVars, storeVars, logsVars, dashVars, mutVars,
                   series, simulated, buffer, cycle>>

\* GET metrics on the serving side: a read of the committed metrics partition.
GetMetricsEndpoint ==
    /\ engine' = [engine EXCEPT !.lastRead = IF engine.running THEN 200 ELSE 500]
    /\ UNCHANGED <<clientVars, cacheVars, viewVars, storeVars, logsVars, dashVars, mutVars,
                   series, simulated, buffer, cycle>>

MetricsTick ==
    \/ \E step \in -Delta(series.name)..Delta(series.name) : TickMetrics(step)
    \/ TickMetricsThrows

GeneratorNext ==
    \/ \E step \in -Delta(series.name)..Delta(series.name) : TickMetrics(step)
    \/ TickMetricsThrows
    \/ GetMetricsEndpoint

GeneratorSpec == GeneratorInit /\ [][GeneratorNext]_vars

\* The metrics task runs on a periodic timer: its tick always comes again.
GeneratorFairSpec == GeneratorInit /\ [][GeneratorNext]_vars /\ WF_vars(MetricsTick)

(***************************************************************************)
(* ServiceHealthSimulator and LogEmitter: two independent periodic tasks.  *)
(* In each tick cycle each runs once, in either order; the log task reads  *)
(* the committed services partition and compares it with its last reading. *)
(***************************************************************************)
\* The records of a set of services, in a fixed order.
RECURSIVE ErrorRecords(_)
ErrorRecords(ids) ==
    IF ids = {} THEN <<>>
    ELSE LET id == CHOOSE x \in ids : \A y \in ids : x = "api-gateway" \/ y # "api-gateway"
         IN  <<[level |-> "error", service |-> id]>> \o ErrorRecords(ids \ {id})

Heartbeat == [level |-> "info", service |-> "system"]

\* The log buffer keeps the newest Retention records.
Retained(records) ==
    IF Len(records) <= Retention THEN records
    ELSE SubSeq(records, Len(records) - Retention + 1, Len(records))

CorrelationInit ==
    /\ call = IdleCall
    /\ served = <<>>
    /\ resource = "logs"
    /\ CacheIdle
    /\ SideIdle

\* The services task ticks: every service moves along the transition graph.
TickServices(next) ==
    /\ "services" \notin cycle.ran
    /\ \A id \in SimulatedServices : next[id] \in ServiceTransitions(simulated[id])
    /\ simulated' = next
    /\ cycle' = [cycle EXCEPT
                    !.ran = @ \cup {"services"},
                    !.wentOffline = {id \in SimulatedServices :
                                        next[id] = "offline" /\ simulated[id] # "offline"}]
    /\ UNCHANGED <<clientVars, cacheVars, viewVars, storeVars, logsVars, dashVars, mutVars,
                   series, buffer, engine>>

\* The log task ticks: a heartbeat every HeartbeatEvery cycles, and an error
\* record for every service it finds offline that was not offline at its last
\* reading.
TickLogs ==
    /\ "logs" \notin cycle.ran
    /\ LET errors == {id \in SimulatedServices :
                         simulated[id] = "offline" /\ cycle.seen[id] # "offline"}
       IN  /\ buffer' = Retained(buffer
                                 \o (IF cycle.beat = 0 THEN <<Heartbeat>> ELSE <<>>)
                                 \o ErrorRecords(errors))
           /\ cycle' = [cycle EXCEPT !.ran = @ \cup {"logs"},
                                     !.seen = simulated,
                                     !.errorsAppended = errors]
    /\ UNCHANGED <<clientVars, cacheVars, viewVars, storeVars, logsVars, dashVars, mutVars,
                   series, simulated, engine>>

\* The period ends: the next tick cycle begins.
CycleEnds ==
    /\ cycle.ran = Tasks
    /\ cycle' = CycleStart(cycle.seen, (cycle.beat + 1) % HeartbeatEvery)
    /\ UNCHANGED <<clientVars, cacheVars, viewVars, storeVars, logsVars, dashVars, mutVars,
                   series, simulated, buffer, engine>>

CorrelationNext ==
    \/ \E next \in [SimulatedServices -> {"online", "degraded", "offline"}] :
          TickServices(next)
    \/ TickLogs
    \/ CycleEnds

CorrelationSpec == CorrelationInit /\ [][CorrelationNext]_vars

(***************************************************************************)
(* One polling refresh of the metrics query seen request by request: the   *)
(* ApiClient retry loop runs inside each run of queryFn, and the query     *)
(* retries queryFn.                                                        *)
(***************************************************************************)
\* What the server answers to the requests of a refresh.
RefreshOutcomes ==
    { FetchAborted,
      HttpResponse(200, "OK", Json, MetricsBodyA, "ok"),
      HttpResponse(200, "OK", Json, BodyEmpty, "ok"),
      HttpResponse(304, "Not Modified", NoHeader, BodyEmpty, "ok"),
      HttpResponse(404, "Not Found", Json, BodyStructured, "ok"),
      HttpResponse(404, "Not Found", Json, BodyNull, "ok"),
      HttpResponse(503, "Service Unavailable", Json, BodyStructured, "ok") }

RefreshInit ==
    /\ call = IdleCall
    /\ served = <<>>
    /\ resource = "metrics"
    /\ CacheIdle
    /\ SideIdle

RefreshNext ==
    \/ Mount
    \/ IntervalTick
    \/ \E outcome \in RefreshOutcomes : QueryRespond(outcome)
    \/ QueryBackoffElapsed
    \/ QueryRetryElapsed

RefreshSpec == RefreshInit /\ [][RefreshNext]_vars

(***************************************************************************)
(* Vocabulary of the properties                                            *)
(***************************************************************************)
\* A failure that the retry policy names retryable.
RetryableFailure(error) ==
    \/ error.name = "NetworkError"
    \/ (error.name = "ApiError" /\ error.status >= 500)

ClientFailure(error) ==
    error.name = "ApiError" /\ error.status >= 400 /\ error.status < 500

\* What the server did, seen from outside the client: a transport failure or a 5xx.
ServerFailure(outcome) ==
    outcome.kind \in {"AbortError", "Error", "nonError"}
    \/ (outcome.kind = "response" /\ outcome.status >= 500)

\* A 200 whose body can be read as the content type announces.
Readable200(outcome) ==
    /\ outcome.kind = "response"
    /\ outcome.status = 200
    /\ outcome.stream = "ok"
    /\ (IsJson(outcome.contentType) => ~JsonParse(outcome.body).threw)

Increasing(seq) == \A i \in 1..Len(seq) : \A j \in 1..Len(seq) : i < j => seq[i] < seq[j]

Budget == retriesOf(call.config)

\* critical > warning > healthy
Severity(status) ==
    CASE status = "healthy" -> 0
      [] status = "warning" -> 1
      [] status = "critical" -> 2

\* Two readings have been shown: the previous and the current Metric[].
TwoReadings == metrics # <<>> /\ previousMetrics # <<>>

\* The thresholds transformMetricsResponse applies to each metric.
Thresholds(name) ==
    CASE name = "CPU Usage" -> {60, 80}
      [] name = "Memory Usage" -> {70, 85}
      [] name = "Network Traffic" -> {1000}
      [] name = "Container Count" -> {}
      [] name = "Overall Health" -> {70, 90}

\* level of the LogEntry type, and the statuses statusConfig of StatusBadge has.
LogEntryLevels == {"info", "warning", "error"}
StatusBadgeStatuses ==
    {"healthy", "warning", "critical", "online", "degraded", "offline", "info", "error"}

\* Going from value a to value b crosses a threshold of the metric upward.
CrossesUp(name, a, b) == \E t \in Thresholds(name) : a <= t /\ t < b

(***************************************************************************)
(* The mutation hooks: useCreateLog and useUpdateService                   *)
(***************************************************************************)
MutationOutcomes ==
    { FetchAborted,
      HttpResponse(201, "Created", Json, BodyData, "ok"),
      HttpResponse(400, "Bad Request", Json, BodyStructured, "ok"),
      HttpResponse(503, "Service Unavailable", Json, BodyStructured, "ok") }

MutationInit ==
    /\ call = IdleCall
    /\ served = <<>>
    /\ resource = "logs"
    /\ CacheIdle
    /\ SideIdle

\* A component renders the hook with the caller's options.
UseMutation(hook, options) ==
    /\ mutation.call.pc \in {"idle", "done"}
    /\ mutation' = [mutation EXCEPT !.hook = hook, !.options = options,
                                    !.call = IdleCall, !.ran = {}]
    /\ UNCHANGED <<clientVars, cacheVars, viewVars, storeVars, logsVars, dashVars, genVars>>

\* mutate(variables): mutationFn issues apiClient.post / apiClient.put.
Mutate ==
    /\ mutation.hook # "none"
    /\ mutation.call.pc \in {"idle", "done"}
    /\ mutation' = [mutation EXCEPT !.call = startCall(NoConfig), !.ran = {}]
    /\ UNCHANGED <<clientVars, cacheVars, viewVars, storeVars, logsVars, dashVars, genVars>>

MutationRespond(outcome) ==
    /\ mutation.call.pc = "fetching"
    /\ mutation' = settleMutation(mutation, outcome)
    /\ UNCHANGED <<clientVars, cacheVars, viewVars, storeVars, logsVars, dashVars, genVars>>

MutationBackoffElapsed ==
    /\ mutation.call.pc = "backoff"
    /\ mutation' = [mutation EXCEPT !.call = nextAttempt(@)]
    /\ UNCHANGED <<clientVars, cacheVars, viewVars, storeVars, logsVars, dashVars, genVars>>

\* An invalidated query has been fetched again and is fresh.
InvalidatedRefetched(key) ==
    /\ key \in mutation.invalidated
    /\ mutation' = [mutation EXCEPT !.invalidated = @ \ {key}]
    /\ UNCHANGED <<clientVars, cacheVars, viewVars, storeVars, logsVars, dashVars, genVars>>

MutationNext ==
    \/ \E hook \in {"useCreateLog", "useUpdateService"} :
           \E options \in MutationOptions : UseMutation(hook, options)
    \/ Mutate
    \/ \E outcome \in MutationOutcomes : MutationRespond(outcome)
    \/ MutationBackoffElapsed
    \/ \E key \in QueryKeys : InvalidatedRefetched(key)

MutationSpec == MutationInit /\ [][MutationNext]_vars

(***************************************************************************)
(* C1. A failed attempt is retried only when its error is retryable: a     *)
(* NetworkError, or an ApiError with status >= 500.  With budget left a    *)
(* retryable failure is retried, and after a 4xx ApiError the call issues  *)
(* no further request.                                                     *)
(***************************************************************************)
C1_RetryOnlyRetryable ==
    /\ [](call.pc = "backoff" => RetryableFailure(call.error))
    /\ []((call.pc = "done" /\ call.result.state = "rejected" /\ call.retries > 0)
            => ~RetryableFailure(call.error))
    /\ [][ /\ (call'.requests > call.requests /\ call.requests > 0)
                => RetryableFailure(call.error)
           /\ ClientFailure(call.error) => call'.requests = call.requests ]_vars

C1_Witness ==
    /\ call.pc = "done"
    /\ call.requests = 2
    /\ call.retries > 0
    /\ ClientFailure(call.error)
    /\ ServerFailure(served[1])

(***************************************************************************)
(* C2. k server failures (5xx or transport) followed by a readable 200,    *)
(* k within the budget: k+1 requests, resolved with the data of the 200,   *)
(* strictly increasing delays.  A first answer 404: one request, no delay, *)
(* rejected with ApiError(404).                                            *)
(***************************************************************************)
C2_RetriesThenSuccess ==
    /\ (call.pc = "done" /\ Len(served) <= Budget
          /\ \A i \in 1..Len(served) : ServerFailure(served[i])) => FALSE
    /\ (call.pc = "done" /\ Len(served) >= 1 /\ Readable200(Last(served))
          /\ \A i \in 1..(Len(served) - 1) : ServerFailure(served[i]))
       => /\ call.requests = Len(served)
          /\ call.result.state = "resolved"
          /\ call.result.value.data.json = Last(served).body
          /\ Len(call.delays) = Len(served) - 1
          /\ Increasing(call.delays)
    /\ (Len(served) >= 1 /\ served[1].kind = "response" /\ served[1].status = 404)
       => /\ call.pc = "done"
          /\ call.requests = 1
          /\ call.delays = <<>>
          /\ call.result.state = "rejected"
          /\ call.result.error.name = "ApiError"
          /\ call.result.error.status = 404

(***************************************************************************)
(* C3. As claimed: a call with the default configuration issues at most    *)
(* RETRY_ATTEMPTS = 3 requests, the first included.                        *)
(***************************************************************************)
C3_AtMostThreeRequests == ~call.config.given => call.requests <= RETRY_ATTEMPTS

(***************************************************************************)
(* C3, amended.  A call with the default configuration issues at most      *)
(* RETRY_ATTEMPTS + 1 = 4 requests: the first attempt and 3 retries.       *)
(***************************************************************************)
C3_AtMostFourRequests == ~call.config.given => call.requests <= RETRY_ATTEMPTS + 1

C3_Witness ==
    /\ ~call.config.given
    /\ call.pc = "done"
    /\ call.requests = RETRY_ATTEMPTS + 1
    /\ call.result.state = "rejected"

(***************************************************************************)
(* C4. When every attempt failed with a retryable error and the budget is  *)
(* used up, the call rejects with the error classified from the last       *)
(* attempt, field for field.                                               *)
(***************************************************************************)
C4_LastErrorUnchanged ==
    (/\ call.pc = "done"
     /\ call.requests = Budget + 1
     /\ Len(served) = call.requests
     /\ \A i \in 1..Len(served) :
            operation(served[i]).threw /\ RetryableFailure(operation(served[i]).value))
    => /\ call.result.state = "rejected"
       /\ call.result.error = operation(Last(served)).value

C4_Witness ==
    /\ call.pc = "done"
    /\ call.requests = RETRY_ATTEMPTS + 1
    /\ call.result.state = "rejected"
    /\ RetryableFailure(call.result.error)
    /\ call.result.error.name = "ApiError"
    /\ operation(served[1]).value # call.result.error
    /\ operation(served[3]).value # call.result.error

(***************************************************************************)
(* C5. Every rejection of get is a NetworkError or an ApiError.            *)
(***************************************************************************)
C5_RejectionsClassified ==
    call.result.state = "rejected"
        => call.result.error.name \in {"NetworkError", "ApiError"}

(***************************************************************************)
(* C6. An attempt that got no response before the timeout, or whose fetch  *)
(* was rejected, is classified NetworkError, with no status field.         *)
(***************************************************************************)
C6_TransportFailureIsNetworkError ==
    (Len(served) >= 1 /\ Last(served).kind \in {"AbortError", "Error", "nonError"})
    => /\ call.error.name = "NetworkError"
       /\ "status" \notin DOMAIN call.error
       /\ (Last(served).kind = "AbortError" => call.error.message = "Request timeout")

C6_Witness ==
    /\ Len(served) = 2
    /\ Last(served).kind = "AbortError"
    /\ served[1].kind = "Error"
    /\ call.pc = "done"
    /\ call.result.state = "rejected"
    /\ call.result.error.name = "NetworkError"

(***************************************************************************)
(* C7. A non-2xx response is classified as an ApiError with the status of  *)
(* the response; a structured body gives message, code and details; an     *)
(* unreadable body changes the message only.                               *)
(***************************************************************************)
C7_NonOkIsApiError ==
    (Len(served) >= 1 /\ Last(served).kind = "response" /\ ~Ok(Last(served)))
    => /\ call.error.name = "ApiError"
       /\ call.error.status = Last(served).status
       /\ (Last(served).stream = "error" => call.error.message = "Failed to parse error response")
       /\ (Last(served).stream = "ok" /\ IsJson(Last(served).contentType)
             /\ Last(served).body = BodyStructured)
          => /\ call.error.message = "No such resource"
             /\ call.error.code = "NOT_FOUND"
             /\ call.error.details = "id=7"

(***************************************************************************)
(* C8. With the default configuration the delay before the k-th retry is   *)
(* RETRY_DELAY * k, and no delay exceeds RETRY_DELAY * RETRY_ATTEMPTS.     *)
(***************************************************************************)
C8_LinearBackoff ==
    ~call.config.given
    => \A k \in 1..Len(call.delays) :
          /\ call.delays[k] = RETRY_DELAY * k
          /\ call.delays[k] <= RETRY_DELAY * RETRY_ATTEMPTS

C8_Witness ==
    /\ ~call.config.given
    /\ call.delays = <<1000, 2000, 3000>>
    /\ call.pc = "done"

(***************************************************************************)
(* C9. For the endpoint of each resource at most one HTTP request is in    *)
(* flight at any time, whatever interval ticks, mounting consumers, manual *)
(* refreshes and connection checks occur while a refresh is under way.     *)
(***************************************************************************)
C9_AtMostOneInFlight == InFlight(resource) <= 1

(***************************************************************************)
(* C10. Once a refresh has failed while a fetched value exists, the entry  *)
(* still holds that value and the resource is reported stale at once.      *)
(***************************************************************************)
C10_StaleAfterFailedRefresh ==
    (query.fetchStatus = "idle" /\ isError(query) /\ lastGood # NoData)
    => /\ query.data = lastGood
       /\ isStale(query)

(***************************************************************************)
(* C11. Once the last fetch of the resource has failed with a 4xx ApiError *)
(* and nothing is under way, a firing of the refetchInterval timer issues  *)
(* no fetch: only a manual refetch or an invalidation fetches again.       *)
(***************************************************************************)
C11_NoIntervalFetchAfter4xx ==
    [][ (query.fetchStatus = "idle" /\ ClientFailure(query.error) /\ IntervalTick)
            => fetch' = fetch ]_vars

(***************************************************************************)
(* C12. A response to a request that was in flight when the last consumer  *)
(* unmounted, or when the resource was invalidated, is never written into  *)
(* the cache entry: while no consumer is mounted the data and error of the *)
(* entry do not change, and an invalidation detaches the request in flight *)
(* from the entry, so that its response is dropped.                        *)
(***************************************************************************)
C12_OutdatedResponseDiscarded ==
    [][ /\ (~mounted /\ ~mounted')
            => (query'.data = query.data /\ query'.error = query.error)
        /\ (fetch.phase = "calling" /\ fetch.call.pc = "fetching" /\ Invalidate)
            => orphans' = Append(orphans, fetch.call) ]_vars

(***************************************************************************)
(* C13. Whenever a metrics value is in the cache, the mounted Dashboard    *)
(* shows the metric cards made from it, whatever the state of a fetch of   *)
(* the metrics query or of the status query.                               *)
(***************************************************************************)
C13_CardsFromCachedMetrics ==
    (mounted /\ query.data # NoData)
    => DashboardMetricsArea = [shows |-> "cards", metrics |-> query.data.list]

(***************************************************************************)
(* C14. When a fetch has failed for good (4xx, or retries used up): with   *)
(* no value fetched before, the consumer gets the classified error and no  *)
(* value; with a value fetched before, the consumer gets that value and    *)
(* the failure is not surfaced to it as an error.                          *)
(***************************************************************************)
C14_ErrorOnlyWithoutValue ==
    (query.fetchStatus = "idle" /\ query.fetchFailureCount > 0)
    => IF lastGood = NoData
       THEN /\ isError(query)
            /\ query.error.name \in {"ApiError", "NetworkError"}
            /\ query.data = NoData
       ELSE /\ query.data = lastGood
            /\ ~isError(query)

(***************************************************************************)
(* C15. The status of the CPU metric is a function of its value and the    *)
(* thresholds warning = 60, critical = 80: 59 is healthy, 61 is warning,   *)
(* 81 is critical, and of two readings the one with the larger value never *)
(* has the lower severity.                                                 *)
(***************************************************************************)
C15_CpuStatusMonotone ==
    metrics # <<>>
    => /\ metrics[1].name = "CPU Usage"
       /\ metrics[1].value = 59 => metrics[1].status = "healthy"
       /\ metrics[1].value = 61 => metrics[1].status = "warning"
       /\ metrics[1].value = 81 => metrics[1].status = "critical"
       /\ (previousMetrics # <<>> /\ previousMetrics[1].value <= metrics[1].value)
            => Severity(previousMetrics[1].status) <= Severity(metrics[1].status)

C15_Witness ==
    /\ TwoReadings
    /\ previousMetrics[1].value = 61
    /\ previousMetrics[1].status = "warning"
    /\ metrics[1].value = 81
    /\ metrics[1].status = "critical"

(***************************************************************************)
(* C16. As claimed: for every one of the five metrics, of two readings the *)
(* one with the larger value never has the lower severity (raising a value *)
(* never improves the status of any metric).                               *)
(***************************************************************************)
C16_RaisingNeverImproves ==
    TwoReadings
    => \A i \in 1..Len(metrics) :
          previousMetrics[i].value <= metrics[i].value
            => Severity(previousMetrics[i].status) <= Severity(metrics[i].status)

(***************************************************************************)
(* C16, amended.  For CPU, memory, network and container count, raising    *)
(* the value never improves the status, and raising it across a threshold  *)
(* of the metric degrades the status.  Overall health is a score where     *)
(* higher is better: raising it never degrades the status, and raising it  *)
(* across a threshold improves the status.                                 *)
(***************************************************************************)
C16_StatusFollowsThresholds ==
    TwoReadings
    => \A i \in 1..Len(metrics) :
          LET a == previousMetrics[i]
              b == metrics[i]
          IN  IF b.name = "Overall Health"
              THEN /\ a.value <= b.value => Severity(a.status) >= Severity(b.status)
                   /\ CrossesUp(b.name, a.value, b.value)
                        => Severity(a.status) > Severity(b.status)
              ELSE /\ a.value <= b.value => Severity(a.status) <= Severity(b.status)
                   /\ CrossesUp(b.name, a.value, b.value)
                        => Severity(a.status) < Severity(b.status)

C16_Witness ==
    /\ TwoReadings
    /\ previousMetrics[5].value = 65 /\ previousMetrics[5].status = "critical"
    /\ metrics[5].value = 95 /\ metrics[5].status = "healthy"
    /\ previousMetrics[2].value = 70 /\ previousMetrics[2].status = "healthy"
    /\ metrics[2].value = 86 /\ metrics[2].status = "critical"
    /\ previousMetrics[3].status = "warning" /\ metrics[3].status = "healthy"

(***************************************************************************)
(* C17. Across two successive readings the trend of every metric is up     *)
(* when the value rose, down when it fell, and stable when it is the same. *)
(***************************************************************************)
C17_TrendFollowsChange ==
    TwoReadings
    => \A i \in 1..Len(metrics) :
          /\ metrics[i].value > previousMetrics[i].value => metrics[i].trend = "up"
          /\ metrics[i].value < previousMetrics[i].value => metrics[i].trend = "down"
          /\ metrics[i].value = previousMetrics[i].value => metrics[i].trend = "stable"

(***************************************************************************)
(* C18. In every state of the services table, after any inserts, status    *)
(* transitions and updates, every row has an uptime that is present and    *)
(* within [0, 100], a status among online, degraded and offline, and an id *)
(* that no other row has.                                                  *)
(***************************************************************************)
C18_ServiceRowsWellFormed ==
    \A row \in services :
        /\ ~row.uptime.null
        /\ row.uptime.v >= 0 /\ row.uptime.v <= 10000
        /\ ~row.status.null
        /\ row.status.v \in {"online", "degraded", "offline"}
        /\ \A other \in services : other.id = row.id => other = row

(***************************************************************************)
(* C19. Every row of the logs table has a level among info, warning and    *)
(* error, so every entry a logs query returns has one of the levels of the *)
(* client's LogEntry type, all of which StatusBadge can render.            *)
(***************************************************************************)
C19_LogLevelsAreTheThree ==
    /\ \A i \in DOMAIN logs : logs[i].level.v \in LogEntryLevels
    /\ LogsReturned
         => \A k \in DOMAIN logsResult.data :
               /\ logsResult.data[k].level \in LogEntryLevels
               /\ logsResult.data[k].level \in StatusBadgeStatuses

(***************************************************************************)
(* C20. A logs query returns entries newest first (ties in insertion       *)
(* order), only entries whose level and service equal the given filters,   *)
(* and at most limit entries; against the table of 5 error and 3 info rows *)
(* limit = 2 with level = error returns exactly the 2 newest error rows.   *)
(***************************************************************************)
C20_LogsQueryResult ==
    LogsReturned
    => LET p == logsResult.params
           d == logsResult.data
       IN  /\ \A i \in DOMAIN d : \A j \in DOMAIN d :
                 i < j => \/ d[i].timestamp > d[j].timestamp
                          \/ (d[i].timestamp = d[j].timestamp /\ d[i].id < d[j].id)
           /\ p.level.given => \A k \in DOMAIN d : d[k].level = p.level.v
           /\ p.service.given => \A k \in DOMAIN d : d[k].service_name = p.service.v
           /\ p.limit.given => Len(d) <= p.limit.v
           /\ (logs = FiveErrorsThreeInfos
                 /\ p = LogsParams(Given(2), Given("error"), Absent, Absent))
              => d = << LogEntry(FiveErrorsThreeInfos[3]), LogEntry(FiveErrorsThreeInfos[5]) >>

(***************************************************************************)
(* C21. After every tick the value of the series is                        *)
(* clamp(v + step, lo, hi) for the value v before it and a step with       *)
(* |step| <= delta, and lo <= value <= hi in every state from the seeded   *)
(* value on.                                                               *)
(***************************************************************************)
C21_ValueInDomain ==
    LET lo == Domain(series.name).lo
        hi == Domain(series.name).hi
    IN  /\ lo <= series.value
        /\ series.value <= hi
        /\ \E step \in -Delta(series.name)..Delta(series.name) :
              series.value = clamp(series.previous + step, lo, hi)

\* A tick has held the series at the bottom or the top of its domain.
C21_Witness ==
    /\ series.value \in {Domain(series.name).lo, Domain(series.name).hi}
    /\ series.previous # series.value
    /\ engine.lastTick = "committed"

(***************************************************************************)
(* C22. A tick of the metrics task that throws never ends the generation   *)
(* loop: it commits nothing, the next tick still runs, and no HTTP read    *)
(* sees an error.                                                          *)
(***************************************************************************)
C22_ThrowingTickAbsorbed ==
    /\ [](engine.running)
    /\ [](engine.lastRead # 500)
    /\ [][ engine'.failures > engine.failures
             => <<series, simulated, buffer>>' = <<series, simulated, buffer>> ]_vars
    /\ \A t \in {0, 1} :
          (engine.lastTick = "failed" /\ engine.turn = t) ~> (engine.turn # t)

\* A tick threw, a later tick committed, and an HTTP read answered 200.
C22_Witness ==
    /\ engine.failures > 0
    /\ engine.lastTick = "committed"
    /\ engine.lastRead = 200
    /\ series.value # Seed(series.name)

(***************************************************************************)
(* C23. When a service goes offline in a tick cycle, an error record that  *)
(* names it has been appended by the end of that cycle, in whichever order *)
(* the services task and the log task ran.                                 *)
(***************************************************************************)
C23_OfflineLoggedInSameTick ==
    cycle.ran = Tasks => cycle.wentOffline \subseteq cycle.errorsAppended

(***************************************************************************)
(* C24. An ApiError comes from a non-2xx response only: no ApiError the    *)
(* call holds or rejects with has a status from 200 to 299.                *)
(***************************************************************************)
C24_ApiErrorOnlyForNonOk ==
    /\ call.error.name = "ApiError"
         => ~(call.error.status >= 200 /\ call.error.status <= 299)
    /\ (call.result.state = "rejected" /\ call.result.error.name = "ApiError")
         => ~(call.result.error.status >= 200 /\ call.result.error.status <= 299)

(***************************************************************************)
(* C25. For every retry budget passed in the request config, the delays    *)
(* before the retries of the call are positive and the k-th of them is     *)
(* RETRY_DELAY * k.                                                        *)
(***************************************************************************)
C25_LinearBackoffEveryBudget ==
    \A k \in 1..Len(call.delays) :
        /\ call.delays[k] > 0
        /\ call.delays[k] = RETRY_DELAY * k

(***************************************************************************)
(* C26. One refresh issues at most 16 HTTP requests, (1+3) runs of queryFn *)
(* with (1+3) attempts of the client each, and exactly 1 request when the  *)
(* first response is a 4xx.                                                *)
(***************************************************************************)
C26_RequestsPerRefresh ==
    /\ [](fetch.requests <= 16)
    /\ [][ \A outcome \in RefreshOutcomes :
             (/\ fetch.requests = 1
              /\ outcome.kind = "response"
              /\ outcome.status >= 400
              /\ outcome.status < 500
              /\ QueryRespond(outcome))
             => (fetch' = IdleFetch /\ query'.fetchStatus = "idle") ]_vars

\* A refresh in which every response was a 5xx or a network failure has
\* issued its 16th request.
C26_Witness ==
    /\ fetch.requests = 16
    /\ query.fetchFailureCount = 3
    /\ fetch.call.requests = 4

\* A refresh ended by a 4xx to its first request.
C26_WitnessClientError ==
    /\ fetch = IdleFetch
    /\ ClientFailure(query.error)
    /\ query.fetchFailureCount = 1

(***************************************************************************)
(* C27. The query layer retries only what the client retries: whenever the *)
(* query waits to run queryFn again, the error it got from the client is   *)
(* one that ApiClient.shouldRetry accepts.                                 *)
(***************************************************************************)
C27_RetryLayersAgree ==
    fetch.phase = "retryWait" => shouldRetry(fetch.failure)

(***************************************************************************)
(* C28. Every get call settles at last, whatever the server does: each     *)
(* attempt comes to an end and the attempts are bounded.                   *)
(***************************************************************************)
C28_EveryCallSettles ==
    /\ [](call.requests <= MaxRetries + 1)
    /\ (call.pc # "idle") ~> (call.pc = "done")

(***************************************************************************)
(* C29. checkConnection returns true exactly when its get of the status    *)
(* endpoint resolved within the retry budget, returns false when that get  *)
(* rejected, and no step of a check touches the cached entry, its error    *)
(* state, its fetch or the data kept from it.                              *)
(***************************************************************************)
C29_CheckConnectionTotal ==
    [][checks' # checks =>
         /\ query' = query
         /\ fetch' = fetch
         /\ orphans' = orphans
         /\ lastGood' = lastGood
         /\ \A i \in DOMAIN checks' :
                checks'[i].pc = "done" =>
                    IF checkResult(checks'[i])
                    THEN /\ checks'[i].result.state = "resolved"
                         /\ checks'[i].requests <= retriesOf(NoConfig) + 1
                    ELSE /\ checks'[i].result.state = "rejected"
                         /\ ~canRetry(checks'[i].retries, checks'[i].error)]_vars

C29_Witness ==
    \E i \in DOMAIN checks :
        /\ checks[i].pc = "done"
        /\ ~checkResult(checks[i])
        /\ checks[i].requests = retriesOf(NoConfig) + 1
        /\ query.data # NoData
        /\ fetch.phase = "calling"

C29_WitnessConnected ==
    \E i \in DOMAIN checks :
        /\ checks[i].pc = "done"
        /\ checkResult(checks[i])
        /\ checks[i].requests > 1
        /\ query.error # NoError

(***************************************************************************)
(* C30. When a mutation's request succeeds, every cached query under the   *)
(* hook's key (all logs queries for useCreateLog, the services query for   *)
(* useUpdateService) is invalidated, whatever options the hook was given;  *)
(* when it fails, no query is invalidated.                                 *)
(***************************************************************************)
C30_SuccessInvalidates ==
    [][(mutation.call.pc = "fetching" /\ mutation'.call.pc = "done") =>
          IF mutation'.call.result.state = "resolved"
          THEN invalidateQueries(hookQueryKey(mutation.hook)) \subseteq mutation'.invalidated
          ELSE mutation'.invalidated = mutation.invalidated]_vars

====
